---- MODULE Spec2Model ----
(***************************************************************************)
(* Layout engine (backend/services/layout/paginator.py) and style genome   *)
(* (backend/services/style/style_gene.py, presets.py) of the presentation  *)
(* generator.                                                              *)
(*                                                                         *)
(* Conventions.                                                            *)
(*   - Optional[T] is a sequence: None is << >>, a value v is << v >>.     *)
(*   - A text is a sequence of character codes, so len() is Len.           *)
(*   - Heights are whole points.                                           *)
(***************************************************************************)
EXTENDS Integers, Sequences, FiniteSets, TLC

\* ------------------------------------------------------------------ bounds
\* Longest body_text drawn as an input (the 40-line scenario is drawn too).
MaxLines == 4
\* Character codes the drawn body lines are made of.
MaxChar == 2
\* Largest max_content_height a Paginator is constructed with, apart from
\* the default CONTENT_AREA_PT.
MaxCap == 101
\* Longest list handed to paginate_presentation.
MaxDeck == 2
\* Number of processes told apart by their string hashing, which orders the
\* elements of a set of tags.
MaxSeed == 2
\* How far outside [0, 1] the drawn mixing factors go, in thousandths.
AlphaOver == 500
\* Number of genes bred one after the other in one process, each from any
\* two genes the process then holds.
MaxBred == 2
\* The channel values of the drawn colours are 0, 255 and the steps between
\* them, this many, besides the darkest ones.
ChannelSteps == 4
\* Longest text drawn as a hex colour that need not be one.
MaxHexLen == 7
\* Pre-set heights of blocks go up to MaxPreset points.
MaxPreset == 61
\* Lists of blocks handed to the packing have up to MaxBlocks blocks.
MaxBlocks == 3
\* The clock of the presentation store goes up to MaxClock ticks.
MaxClock == 2

None == << >>
Some(v) == << v >>

Max(a, b) == IF a >= b THEN a ELSE b

\* ------------------------------------------------- services/nlp/models.py
LayoutType ==
    { "title_only", "title_content", "two_column", "visual_heavy",
      "comparison", "section_header", "blank" }

VisualType ==
    { "none", "image", "chart_bar", "chart_pie", "chart_line", "icon_3d",
      "diagram", "infographic" }

VisualSpec(visual_type, prompt) ==
    [ visual_type |-> visual_type, prompt |-> prompt ]

SlideContent(title, body_text, visual_spec, speaker_notes) ==
    [ title         |-> title,
      layout_type   |-> "title_content",
      body_text     |-> body_text,
      visual_spec   |-> visual_spec,
      speaker_notes |-> speaker_notes,
      key_message   |-> "" ]

\* ------------------------------------------- services/layout/paginator.py
BlockType ==
    { "heading", "paragraph", "bullet_list", "numbered_list", "image",
      "chart", "quote", "spacer" }

SLIDE_HEIGHT_PT == 540
SLIDE_WIDTH_PT == 720
TITLE_AREA_PT == 80
FOOTER_AREA_PT == 30
CONTENT_AREA_PT == SLIDE_HEIGHT_PT - TITLE_AREA_PT - FOOTER_AREA_PT

BLOCK_HEIGHTS ==
    [ t \in BlockType |->
        CASE t = "heading"       -> 60
          [] t = "paragraph"     -> 45
          [] t = "bullet_list"   -> 25
          [] t = "numbered_list" -> 28
          [] t = "image"         -> 200
          [] t = "chart"         -> 250
          [] t = "quote"         -> 60
          [] t = "spacer"        -> 20 ]

ContentBlock(block_type, content, estimated_height_pt) ==
    [ block_type          |-> block_type,
      content             |-> content,
      estimated_height_pt |-> estimated_height_pt,
      level               |-> 0,
      visual_spec         |-> None,
      keep_with_next      |-> FALSE ]

SlideSpec(title, layout_type) ==
    [ title               |-> title,
      layout_type         |-> layout_type,
      blocks              |-> << >>,
      visual_spec         |-> None,
      speaker_notes       |-> "",
      total_height_pt     |-> 0,
      is_continuation     |-> FALSE,
      continuation_marker |-> "" ]

\* Paginator._estimate_block_height.  The paragraph estimate len/60 * 20 is
\* taken in whole points.
EstimateBlockHeight(block) ==
    IF block.estimated_height_pt > 0
    THEN block.estimated_height_pt
    ELSE LET base_height == BLOCK_HEIGHTS[block.block_type]
         IN  IF block.block_type = "paragraph"
             THEN Max(base_height, (Len(block.content) * 20) \div 60)
             ELSE base_height

\* Paginator._should_keep_together.
ShouldKeepTogether(current_block, next_block) ==
    IF current_block.keep_with_next
    THEN TRUE
    ELSE current_block.block_type = "heading"

CanFitIgnoringBlock(cap, current_slide, block) ==
    current_slide.total_height_pt <= cap

CanFitStrictly(cap, current_slide, block) ==
    current_slide.total_height_pt + EstimateBlockHeight(block) < cap

\* Paginator._can_fit_on_slide, cap being self.max_content_height.
CanFitOnSlide(cap, current_slide, block) ==
    current_slide.total_height_pt + EstimateBlockHeight(block) <= cap

\* paginate_slide_content, "Convert body text to blocks".
BodyBlocks(slide) ==
    [ j \in 1..Len(slide.body_text) |->
        ContentBlock("bullet_list", slide.body_text[j],
                     BLOCK_HEIGHTS["bullet_list"]) ]

RECURSIVE SumHeights(_)
SumHeights(blocks) ==
    IF blocks = << >>
    THEN 0
    ELSE EstimateBlockHeight(Head(blocks)) + SumHeights(Tail(blocks))

SingleSlideNoNotes(slide, blocks, total_height) ==
    [ SlideSpec(slide.title, slide.layout_type) EXCEPT
        !.blocks = blocks,
        !.visual_spec = slide.visual_spec,
        !.total_height_pt = total_height ]

\* paginate_slide_content, "Simple case: everything fits": the one SlideSpec.
SingleSlide(slide, blocks, total_height) ==
    [ SlideSpec(slide.title, slide.layout_type) EXCEPT
        !.blocks = blocks,
        !.visual_spec = slide.visual_spec,
        !.speaker_notes = slide.speaker_notes,
        !.total_height_pt = total_height ]

\* paginate_slide_content, the first current_slide of the split path
\* (slides is still empty there, so "if not slides" holds).
FirstSlide(slide) ==
    [ SlideSpec(slide.title, slide.layout_type) EXCEPT
        !.visual_spec = slide.visual_spec,
        !.speaker_notes = slide.speaker_notes ]

ContinuationSlideDroppingBlock(slide, block) ==
    [ SlideSpec(slide.title, slide.layout_type) EXCEPT
        !.is_continuation = TRUE,
        !.continuation_marker = "(Continued)" ]

ContinuationSlideNoHeight(slide, block) ==
    [ SlideSpec(slide.title, slide.layout_type) EXCEPT
        !.is_continuation = TRUE,
        !.continuation_marker = "(Continued)",
        !.blocks = << block >> ]

\* paginate_slide_content, "Start new slide": the continuation slide that
\* takes the block that did not fit.
ContinuationSlide(slide, block) ==
    [ SlideSpec(slide.title, slide.layout_type) EXCEPT
        !.is_continuation = TRUE,
        !.continuation_marker = "(Continued)",
        !.blocks = << block >>,
        !.total_height_pt = EstimateBlockHeight(block) ]

\* "if current_slide.blocks: slides.append(current_slide)".
CloseSlide(slides, current_slide) ==
    IF current_slide.blocks # << >>
    THEN Append(slides, current_slide)
    ELSE slides

PackBlockKeepingTogether(cap, slide, st, block) ==
    IF /\ CanFitOnSlide(cap, st.current_slide, block)
       /\ ~ ( ShouldKeepTogether(block, None)
              /\ st.current_slide.blocks # << >> )
    THEN [ slides        |-> st.slides,
           current_slide |->
               [ st.current_slide EXCEPT
                   !.blocks = Append(@, block),
                   !.total_height_pt = @ + EstimateBlockHeight(block) ],
           i             |-> st.i + 1 ]
    ELSE [ slides        |-> CloseSlide(st.slides, st.current_slide),
           current_slide |-> ContinuationSlide(slide, block),
           i             |-> st.i + 1 ]

\* One iteration of "for i, block in enumerate(blocks)"; st holds the locals
\* slides and current_slide and the number i of blocks consumed.
PackBlock(cap, slide, st, block) ==
    IF CanFitOnSlide(cap, st.current_slide, block)
    THEN [ slides        |-> st.slides,
           current_slide |->
               [ st.current_slide EXCEPT
                   !.blocks = Append(@, block),
                   !.total_height_pt = @ + EstimateBlockHeight(block) ],
           i             |-> st.i + 1 ]
    ELSE [ slides        |-> CloseSlide(st.slides, st.current_slide),
           current_slide |-> ContinuationSlide(slide, block),
           i             |-> st.i + 1 ]

\* The loop "for i, block in enumerate(blocks)", from st on.
RECURSIVE PackLoop(_, _, _, _)
PackLoop(cap, slide, blocks, st) ==
    IF st.i >= Len(blocks)
    THEN st
    ELSE PackLoop(cap, slide, blocks,
                  PackBlock(cap, slide, st, blocks[st.i + 1]))

\* Paginator.paginate_slide_content.
PaginateSlideContent(cap, slide) ==
    LET blocks == BodyBlocks(slide)
        total_height == SumHeights(blocks)
    IN  IF total_height <= cap
        THEN << SingleSlide(slide, blocks, total_height) >>
        ELSE LET st == PackLoop(cap, slide, blocks,
                          [ slides        |-> << >>,
                            current_slide |-> FirstSlide(slide),
                            i             |-> 0 ])
             IN  CloseSlide(st.slides, st.current_slide)

\* paginate_slide_content from "Simple case: everything fits" on, for any
\* list of blocks.
PaginateBlocks(cap, slide, blocks) ==
    LET total_height == SumHeights(blocks)
    IN  IF total_height <= cap
        THEN << SingleSlide(slide, blocks, total_height) >>
        ELSE LET st == PackLoop(cap, slide, blocks,
                          [ slides        |-> << >>,
                            current_slide |-> FirstSlide(slide),
                            i             |-> 0 ])
             IN  CloseSlide(st.slides, st.current_slide)

ExtendInFront(result, paginated) == paginated \o result

\* paginate_presentation, "result.extend(paginated)".
Extend(result, paginated) == result \o paginated

SuggestLayoutOddComparison(slide) ==
    LET has_visual ==
            /\ slide.visual_spec # None
            /\ slide.visual_spec[1].visual_type # "none"
        text_count == Len(slide.body_text)
    IN  IF text_count = 0 /\ ~has_visual THEN "title_only"
        ELSE IF text_count <= 1 /\ ~has_visual THEN "section_header"
        ELSE IF has_visual
             THEN IF text_count <= 2 THEN "visual_heavy" ELSE "two_column"
        ELSE IF text_count >= 4 /\ text_count % 2 = 1 THEN "two_column"
        ELSE "title_content"

\* LayoutOptimizer.suggest_layout.
SuggestLayout(slide) ==
    LET has_visual ==
            /\ slide.visual_spec # None
            /\ slide.visual_spec[1].visual_type # "none"
        text_count == Len(slide.body_text)
    IN  IF text_count = 0 /\ ~has_visual THEN "title_only"
        ELSE IF text_count <= 1 /\ ~has_visual THEN "section_header"
        ELSE IF has_visual
             THEN IF text_count <= 2 THEN "visual_heavy" ELSE "two_column"
        ELSE IF text_count >= 4 /\ text_count % 2 = 0 THEN "two_column"
        ELSE "title_content"

\* ------------------------------------------ services/style/style_gene.py
\* Numbers.  A float is a whole number of thousandths: 1.25 is 1250, and
\* the mixing factor alpha = 0.5 is 500.  A product is rounded to the
\* nearest thousandth (ties to even), as a float product is rounded to the
\* nearest float.
Unit == 10 * 10 * 10

Half == Unit \div 2

\* n / d rounded to the nearest integer, ties to even (d > 0).
RoundDiv(n, d) ==
    LET q == n \div d
        r == n % d
    IN  IF 2 * r > d \/ (2 * r = d /\ q % 2 = 1) THEN q + 1 ELSE q

\* x * y on thousandths.
Mul(x, y) == RoundDiv(x * y, Unit)

\* paginator.py, LayoutOptimizer.calculate_density_score, in thousandths.
CalculateDensityScore(slide) ==
    RoundDiv(slide.total_height_pt * Unit, CONTENT_AREA_PT)

\* int(x) of the float n / d: truncation towards zero (d > 0).
IntTrunc(n, d) == IF n >= 0 THEN n \div d ELSE 0 - ((0 - n) \div d)

\* f"{w:.1f}".
Fmt1(w) ==
    LET tenths == RoundDiv(IF w < 0 THEN 0 - w ELSE w, Unit \div 10)
    IN  (IF w < 0 THEN "-" ELSE "")
            \o ToString(tenths \div 10) \o "." \o ToString(tenths % 10)

FontWeight == { "300", "400", "500", "600", "700" }

Roles ==
    { "primary", "secondary", "accent", "background", "surface",
      "text_primary", "text_secondary" }

LAB(L, a, b) == [ L |-> L, a |-> a, b |-> b ]

\* The outcome of a call: the exception raised ("" when none) and the value
\* returned (None when it raised).
Returns(value) == [ raised |-> "", value |-> Some(value) ]
Raises(exception) == [ raised |-> exception, value |-> None ]

\* LABColor.  Inside a conversion a float is a whole number of 2^-26, and
\* products and quotients are cut to that; the L, a, b of a LABColor are
\* thousandths like the other floats of a gene.
\* 1.0 in 2^-26.
One == 2 ^ 26

HalfBits == 2 ^ 13

Abs(x) == IF x < 0 THEN 0 - x ELSE x

Sign(x) == IF x < 0 THEN -1 ELSE 1

\* x * n / d for whole n and d with n * d < 2^31.
MulRat(x, n, d) == (x \div d) * n + ((x % d) * n) \div d

\* x * y, both in 2^-26.
MulOne(x, y) ==
    LET ax == Abs(x)
        ay == Abs(y)
        xh == ax \div HalfBits
        xl == ax % HalfBits
        yh == ay \div HalfBits
        yl == ay % HalfBits
    IN  Sign(x) * Sign(y)
            * (xh * yh + (xh * yl + xl * yh + (xl * yl) \div HalfBits) \div HalfBits)

\* The bits-bit binary fraction of r / den, 0 <= r < den.
RECURSIVE Frac(_, _, _)
Frac(r, den, bits) ==
    IF bits = 0
    THEN 0
    ELSE IF 2 * r >= den
         THEN 2 ^ (bits - 1) + Frac(2 * r - den, den, bits - 1)
         ELSE Frac(2 * r, den, bits - 1)

\* num / den in 2^-26, for whole num and den > 0.
DivOne(num, den) ==
    LET n == Abs(num)
    IN  Sign(num) * ((n \div den) * One + Frac(n % den, den, 26))

\* x / y, both in 2^-26, y > 0.
Quot(x, y) == DivOne(x, y)

\* The largest y in lo..hi with P(y).
RECURSIVE Bisect(_, _, _)
Bisect(P(_), lo, hi) ==
    IF lo >= hi
    THEN lo
    ELSE LET mid == (lo + hi + 1) \div 2
         IN  IF P(mid) THEN Bisect(P, mid, hi) ELSE Bisect(P, lo, mid - 1)

Top == 2 * One

\* c ** 0.5, c ** (1/3), c ** 0.2 for 0 <= c <= 2.
Sqrt(c) == Bisect(LAMBDA y : MulOne(y, y) <= c, 0, Top)
Cbrt(c) == Bisect(LAMBDA y : MulOne(MulOne(y, y), y) <= c, 0, Top)
FifthRoot(c) ==
    Bisect(LAMBDA y : LET y2 == MulOne(y, y)
                      IN  MulOne(MulOne(y2, y2), y) <= c, 0, Top)

\* c ** 2.4 = c^2 * (c^2) ** 0.2.
Pow24(c) == LET c2 == MulOne(c, c) IN MulOne(c2, FifthRoot(c2))

\* c ** (1/2.4) = (c ** (1/12)) ** 5.
PowInv24(c) ==
    LET v == Cbrt(Sqrt(Sqrt(c)))
        v2 == MulOne(v, v)
    IN  MulOne(MulOne(v2, v2), v)

\* The float literal n / 10^7.
Dec7(n) == DivOne(n, 10 ^ 7)

\* _from_hex_fallback: gamma_correct.
GammaCorrect(c) ==
    IF c > DivOne(4045, 100000)
    THEN Pow24(Quot(c + DivOne(55, 1000), DivOne(1055, 1000)))
    ELSE Quot(c, DivOne(1292, 100))

Xn == DivOne(95047, 100000)
Yn == One
Zn == DivOne(108883, 100000)

\* _from_hex_fallback: f.
F(t) ==
    IF t > DivOne(8856, 10 ^ 6)
    THEN Cbrt(t)
    ELSE MulOne(DivOne(7787, 1000), t) + DivOne(16, 116)

\* k * x in thousandths, to the nearest, for x in 2^-26 and whole k:
\* k * x * 1000 / 2^26 = k * (x * 125 / 2^11) / 2^12.
Thousandths(k, x) ==
    LET u == MulRat(Abs(x), 125, 2 ^ 11)
    IN  Sign(x) * ((MulRat(u, 2 * k, 2 ^ 12) + 1) \div 2)

\* LABColor._from_hex_fallback(r, g, b), the channels in 2^-26.
FromHexFallback(r, g, b) ==
    LET rl == GammaCorrect(r)
        gl == GammaCorrect(g)
        bl == GammaCorrect(b)
        x == MulOne(rl, Dec7(4124564)) + MulOne(gl, Dec7(3575761))
                 + MulOne(bl, Dec7(1804375))
        y == MulOne(rl, Dec7(2126729)) + MulOne(gl, Dec7(7151522))
                 + MulOne(bl, Dec7(721750))
        z == MulOne(rl, Dec7(193339)) + MulOne(gl, Dec7(1191920))
                 + MulOne(bl, Dec7(9503041))
        fx == F(Quot(x, Xn))
        fy == F(Quot(y, Yn))
        fz == F(Quot(z, Zn))
    IN  LAB(Thousandths(116, fy) - 16 * Unit,
            Thousandths(500, fx - fy),
            Thousandths(200, fy - fz))

\* _to_hex_fallback: f_inv.
FInv(t) ==
    IF t > DivOne(206893, 10 ^ 6)
    THEN MulOne(MulOne(t, t), t)
    ELSE Quot(t - DivOne(16, 116), DivOne(7787, 1000))

GammaExpandNoOffset(c) ==
    IF c > DivOne(31308, 10 ^ 7)
    THEN MulOne(DivOne(1055, 1000), PowInv24(c))
    ELSE MulOne(DivOne(1292, 100), c)

\* _to_hex_fallback: gamma_expand.
GammaExpand(c) ==
    IF c > DivOne(31308, 10 ^ 7)
    THEN MulOne(DivOne(1055, 1000), PowInv24(c)) - DivOne(55, 1000)
    ELSE MulOne(DivOne(1292, 100), c)

Clamp01(c) == IF c < 0 THEN 0 ELSE IF c > One THEN One ELSE c

HexDigits ==
    << "0", "1", "2", "3", "4", "5", "6", "7", "8", "9",
       "a", "b", "c", "d", "e", "f" >>

\* int(c * 255) for 0 <= c <= 1.
Channel255(c) ==
    ((c \div HalfBits) * 255 + ((c % HalfBits) * 255) \div HalfBits)
        \div HalfBits

\* LABColor._to_hex_fallback, up to the formatting: the three int(c*255).
ToHexChannels(self) ==
    LET fy == DivOne(self.L + 16 * Unit, 116 * Unit)
        y == MulOne(Yn, FInv(fy))
        x == MulOne(Xn, FInv(fy + DivOne(self.a, 500 * Unit)))
        z == MulOne(Zn, FInv(fy - DivOne(self.b, 200 * Unit)))
        r == MulOne(x, Dec7(32404542)) - MulOne(y, Dec7(15371385))
                 - MulOne(z, Dec7(4985314))
        g == MulOne(y, Dec7(18760108)) + MulOne(z, Dec7(415560))
                 - MulOne(x, Dec7(9692660))
        b == MulOne(x, Dec7(556434)) - MulOne(y, Dec7(2040259))
                 + MulOne(z, Dec7(10572252))
    IN  << Channel255(Clamp01(GammaExpand(r))),
           Channel255(Clamp01(GammaExpand(g))),
           Channel255(Clamp01(GammaExpand(b))) >>


\* A text of hexadecimal digits and others is a sequence of characters.
\* s.lstrip("#").
RECURSIVE Lstrip(_)
Lstrip(s) ==
    IF s # << >> /\ Head(s) = "#" THEN Lstrip(Tail(s)) ELSE s

\* s.strip(): blanks removed at both ends.
RECURSIVE Strip(_)
Strip(s) ==
    IF s = << >> THEN s
    ELSE IF Head(s) = " " THEN Strip(Tail(s))
    ELSE IF s[Len(s)] = " " THEN Strip(SubSeq(s, 1, Len(s) - 1))
    ELSE s

\* s[i:j] for 0 <= i <= j.
Slice(s, i, j) ==
    SubSeq(s, i + 1, IF j < Len(s) THEN j ELSE Len(s))

UpperDigits == << "A", "B", "C", "D", "E", "F" >>

IsHexDigit(c) ==
    \/ \E k \in 1..Len(HexDigits) : HexDigits[k] = c
    \/ \E k \in 1..Len(UpperDigits) : UpperDigits[k] = c

DigitValue(c) ==
    IF \E k \in 1..Len(HexDigits) : HexDigits[k] = c
    THEN (CHOOSE k \in 1..Len(HexDigits) : HexDigits[k] = c) - 1
    ELSE (CHOOSE k \in 1..Len(UpperDigits) : UpperDigits[k] = c) + 9

\* int(s, 16) for a text s of at most two characters: blanks around the
\* number and a sign in front of it are accepted, as int() accepts them;
\* None stands for ValueError.
IntBase16(s) ==
    LET body == Strip(s)
        signed == body # << >> /\ Head(body) \in { "+", "-" }
        digits == IF signed THEN Tail(body) ELSE body
        magnitude ==
            IF Len(digits) = 1
            THEN DigitValue(digits[1])
            ELSE 16 * DigitValue(digits[1]) + DigitValue(digits[2])
    IN  IF digits = << >> \/ \E k \in 1..Len(digits) : ~IsHexDigit(digits[k])
        THEN None
        ELSE Some(IF signed /\ Head(body) = "-" THEN 0 - magnitude
                  ELSE magnitude)

\* LABColor.from_hex, in the build without the colormath package.
FromHex(hex_color) ==
    LET stripped == Lstrip(hex_color)
        r == IntBase16(Slice(stripped, 0, 2))
        g == IntBase16(Slice(stripped, 2, 4))
        b == IntBase16(Slice(stripped, 4, 6))
    IN  IF r = None \/ g = None \/ b = None
        THEN Raises("ValueError")
        ELSE Returns(FromHexFallback(DivOne(r[1], 255), DivOne(g[1], 255),
                                     DivOne(b[1], 255)))

\* f"{v:02x}" for v in 0..255.
Hex02(v) == << HexDigits[(v \div 16) + 1], HexDigits[(v % 16) + 1] >>

\* LABColor.to_hex, in the build without the colormath package.
ToHex(self) ==
    LET channels == ToHexChannels(self)
    IN  << "#" >> \o Hex02(channels[1]) \o Hex02(channels[2])
            \o Hex02(channels[3])

LerpSignSlip(a, b, t) == Mul(a, Unit - t) - Mul(b, t)

\* LayoutPhysics._lerp: a * (1 - t) + b * t.
Lerp(a, b, t) == Mul(a, Unit - t) + Mul(b, t)

LABColorInterpolateViaHex(self, other, alpha) ==
    LET s == FromHex(ToHex(self)).value[1]
        o == FromHex(ToHex(other)).value[1]
    IN  [ L |-> Mul(s.L, Unit - alpha) + Mul(o.L, alpha),
          a |-> Mul(s.a, Unit - alpha) + Mul(o.a, alpha),
          b |-> Mul(s.b, Unit - alpha) + Mul(o.b, alpha) ]

\* LABColor.interpolate.
LABColorInterpolate(self, other, alpha) ==
    [ L |-> Mul(self.L, Unit - alpha) + Mul(other.L, alpha),
      a |-> Mul(self.a, Unit - alpha) + Mul(other.a, alpha),
      b |-> Mul(self.b, Unit - alpha) + Mul(other.b, alpha) ]

\* ColorPalette.interpolate.
ColorPaletteInterpolate(self, other, alpha) ==
    [ r \in Roles |-> LABColorInterpolate(self[r], other[r], alpha) ]

\* ColorPalette.from_hex_dict: the default of colors.get(role, default).
DefaultHex(role) ==
    CASE role = "primary"        -> << "#", "2", "5", "6", "3", "e", "b" >>
      [] role = "secondary"      -> << "#", "7", "c", "3", "a", "e", "d" >>
      [] role = "accent"         -> << "#", "f", "5", "9", "e", "0", "b" >>
      [] role = "background"     -> << "#", "f", "f", "f", "f", "f", "f" >>
      [] role = "surface"        -> << "#", "f", "8", "f", "a", "f", "c" >>
      [] role = "text_primary"   -> << "#", "1", "e", "2", "9", "3", "b" >>
      [] role = "text_secondary" -> << "#", "6", "4", "7", "4", "8", "b" >>

\* ColorPalette.from_hex_dict.  colors maps each role to the hex colour
\* supplied for it, None when the dict has no such key.
FromHexDict(colors) ==
    LET converted ==
            [ role \in Roles |->
                FromHex(IF colors[role] = None THEN DefaultHex(role)
                        ELSE colors[role][1]) ]
    IN  IF \E role \in Roles : converted[role].raised # ""
        THEN Raises("ValueError")
        ELSE Returns([ role \in Roles |-> converted[role].value[1] ])

\* ColorPalette.to_hex_dict.
ToHexDict(self) == [ role \in Roles |-> ToHex(self[role]) ]

\* LayoutPhysics.interpolate.
LayoutPhysicsInterpolate(self, other, alpha) ==
    [ density          |-> Lerp(self.density, other.density, alpha),
      corner_radius    |-> Lerp(self.corner_radius, other.corner_radius, alpha),
      margin_factor    |-> Lerp(self.margin_factor, other.margin_factor, alpha),
      padding_factor   |-> Lerp(self.padding_factor, other.padding_factor, alpha),
      shadow_intensity |->
          Lerp(self.shadow_intensity, other.shadow_intensity, alpha),
      border_width     |-> Lerp(self.border_width, other.border_width, alpha) ]

\* TypographyParams(): the defaults of the dataclass.
TypographyParams ==
    [ heading_font   |-> "Inter",
      body_font      |-> "Inter",
      heading_weight |-> "700",
      body_weight    |-> "400",
      base_size_pt   |-> 16 * Unit,
      scale_ratio    |-> 1250,
      line_height    |-> 1500,
      letter_spacing |-> 0 ]

\* x ** n.
RECURSIVE Pow(_, _)
Pow(x, n) == IF n = 0 THEN Unit ELSE Mul(Pow(x, n - 1), x)

\* TypographyParams.get_heading_sizes.
GetHeadingSizes(self) ==
    [ h1   |-> Mul(self.base_size_pt, Pow(self.scale_ratio, 4)),
      h2   |-> Mul(self.base_size_pt, Pow(self.scale_ratio, 3)),
      h3   |-> Mul(self.base_size_pt, Pow(self.scale_ratio, 2)),
      h4   |-> Mul(self.base_size_pt, self.scale_ratio),
      body |-> self.base_size_pt ]

PickTieToSelf(self_value, other_value, alpha) ==
    IF alpha <= Half THEN self_value ELSE other_value

\* StyleGene.interpolate: "self.x if alpha < 0.5 else other.x".
Pick(self_value, other_value, alpha) ==
    IF alpha < Half THEN self_value ELSE other_value

\* StyleGene.interpolate: new_typography.  letter_spacing is not passed to
\* TypographyParams(...), so the child has the dataclass default.
NewTypography(self, other, alpha) ==
    [ TypographyParams EXCEPT
        !.heading_font =
            Pick(self.typography.heading_font, other.typography.heading_font,
                 alpha),
        !.body_font =
            Pick(self.typography.body_font, other.typography.body_font, alpha),
        !.heading_weight =
            Pick(self.typography.heading_weight,
                 other.typography.heading_weight, alpha),
        !.body_weight =
            Pick(self.typography.body_weight, other.typography.body_weight,
                 alpha),
        !.base_size_pt =
            Lerp(self.typography.base_size_pt, other.typography.base_size_pt,
                 alpha),
        !.scale_ratio =
            Lerp(self.typography.scale_ratio, other.typography.scale_ratio,
                 alpha),
        !.line_height =
            Lerp(self.typography.line_height, other.typography.line_height,
                 alpha) ]

\* StyleGene.interpolate: combined_prompt.
CombinedPrompt(self, other, alpha) ==
    "(" \o self.visual_style_prompt \o ":" \o Fmt1(Unit - alpha) \o ") AND ("
        \o other.visual_style_prompt \o ":" \o Fmt1(alpha) \o ")"

\* StyleGene.interpolate: gene_id, with int(alpha*100).
ChildGeneId(self, other, alpha) ==
    self.gene_id \o "_x_" \o other.gene_id \o "_"
        \o ToString(IntTrunc(alpha * 100, Unit))

SeqToSet(s) == { s[j] : j \in DOMAIN s }

\* list(set(...)): the elements of S in the iteration order of a set, which
\* the process's string hashing fixes; order is that order on all tags.
ListOfSet(order, S) == SelectSeq(order, LAMBDA x : x \in S)

ChildTagsConcatenated(self, other, order) == self.tags \o other.tags

\* StyleGene.interpolate: tags=list(set(self.tags + other.tags)).
ChildTags(self, other, order) ==
    ListOfSet(order, SeqToSet(self.tags \o other.tags))

\* StyleGene.interpolate.  order is the iteration order of sets of tags in
\* this process.
StyleGeneInterpolate(self, other, alpha, order) ==
    [ gene_id    |-> ChildGeneId(self, other, alpha),
      name       |-> self.name \o " x " \o other.name,
      typography |-> NewTypography(self, other, alpha),
      palette    |-> ColorPaletteInterpolate(self.palette, other.palette, alpha),
      layout     |-> LayoutPhysicsInterpolate(self.layout, other.layout, alpha),
      visual_style_prompt |-> CombinedPrompt(self, other, alpha),
      tags       |-> ChildTags(self, other, order) ]

\* --------------------------------------------- services/style/presets.py
\* Each palette colour is LABColor.from_hex of the hex colour in the comment
\* (the conversion used when colormath is not installed), in thousandths.
CORPORATE_CLASSIC ==
    [ gene_id    |-> "corporate_classic",
      name       |-> "Corporate Classic",
      typography |->
          [ heading_font   |-> "Georgia",
            body_font      |-> "Arial",
            heading_weight |-> "700",
            body_weight    |-> "400",
            base_size_pt   |-> 14000,
            scale_ratio    |-> 1200,
            line_height    |-> 1500,
            letter_spacing |-> 0 ],
      palette    |->
          [ r \in Roles |->
              CASE r = "primary"        -> LAB(24090, 2743, -25155)   \* #1e3a5f
                [] r = "secondary"      -> LAB(34357, 2829, -31011)   \* #2c5282
                [] r = "accent"         -> LAB(49466, 39637, 48838)   \* #c05621
                [] r = "background"     -> LAB(100000, 0, 0)   \* #ffffff
                [] r = "surface"        -> LAB(98103, -632, -1302)   \* #f7fafc
                [] r = "text_primary"   -> LAB(12185, 991, -8892)   \* #1a202c
                [] r = "text_secondary" -> LAB(35892, 541, -12359)   \* #4a5568
          ],
      layout     |->
          [ density          |-> 500,
            corner_radius    |-> 4000,
            margin_factor    |-> 80,
            padding_factor   |-> 40,
            shadow_intensity |-> 50,
            border_width     |-> 0 ],
      visual_style_prompt |->
          "professional corporate, business presentation, clean navy blue, formal",
      tags       |-> << "corporate", "professional", "formal", "business" >> ]

MODERN_MINIMAL ==
    [ gene_id    |-> "modern_minimal",
      name       |-> "Modern Minimal",
      typography |->
          [ heading_font   |-> "Inter",
            body_font      |-> "Inter",
            heading_weight |-> "600",
            body_weight    |-> "400",
            base_size_pt   |-> 16000,
            scale_ratio    |-> 1333,
            line_height    |-> 1600,
            letter_spacing |-> 0 ],
      palette    |->
          [ r \in Roles |->
              CASE r = "primary"        -> LAB(8364, 806, -2102)   \* #18181b
                [] r = "secondary"      -> LAB(26888, 1641, -4256)   \* #3f3f46
                [] r = "accent"         -> LAB(46059, 30958, -73825)   \* #2563eb
                [] r = "background"     -> LAB(98272, 0, 0)   \* #fafafa
                [] r = "surface"        -> LAB(100000, 0, 0)   \* #ffffff
                [] r = "text_primary"   -> LAB(2508, 282, -767)   \* #09090b
                [] r = "text_secondary" -> LAB(47913, 1892, -4958)   \* #71717a
          ],
      layout     |->
          [ density          |-> 300,
            corner_radius    |-> 12000,
            margin_factor    |-> 100,
            padding_factor   |-> 40,
            shadow_intensity |-> 0,
            border_width     |-> 0 ],
      visual_style_prompt |->
          "minimal clean modern, lots of whitespace, subtle, elegant",
      tags       |-> << "minimal", "modern", "clean", "simple" >> ]

TECH_STARTUP ==
    [ gene_id    |-> "tech_startup",
      name       |-> "Tech Startup",
      typography |->
          [ heading_font   |-> "Poppins",
            body_font      |-> "Inter",
            heading_weight |-> "700",
            body_weight    |-> "400",
            base_size_pt   |-> 15000,
            scale_ratio    |-> 1250,
            line_height    |-> 1500,
            letter_spacing |-> 0 ],
      palette    |->
          [ r \in Roles |->
              CASE r = "primary"        -> LAB(50102, 38688, -70485)   \* #6366f1
                [] r = "secondary"      -> LAB(51606, 53156, -70684)   \* #8b5cf6
                [] r = "accent"         -> LAB(68200, -27562, -25903)   \* #06b6d4
                [] r = "background"     -> LAB(100000, 0, 0)   \* #ffffff
                [] r = "surface"        -> LAB(96300, 2816, -5515)   \* #f5f3ff
                [] r = "text_primary"   -> LAB(13032, 17289, -29457)   \* #1e1b4b
                [] r = "text_secondary" -> LAB(47904, 493, -8592)   \* #6b7280
          ],
      layout     |->
          [ density          |-> 400,
            corner_radius    |-> 16000,
            margin_factor    |-> 60,
            padding_factor   |-> 40,
            shadow_intensity |-> 150,
            border_width     |-> 0 ],
      visual_style_prompt |->
          "tech startup, gradient, vibrant purple blue, modern SaaS, innovative",
      tags       |-> << "tech", "startup", "modern", "vibrant", "gradient" >> ]

DARK_CYBER ==
    [ gene_id    |-> "dark_cyber",
      name       |-> "Dark Cyber",
      typography |->
          [ heading_font   |-> "Roboto Mono",
            body_font      |-> "Roboto",
            heading_weight |-> "700",
            body_weight    |-> "400",
            base_size_pt   |-> 14000,
            scale_ratio    |-> 1200,
            line_height    |-> 1500,
            letter_spacing |-> 0 ],
      palette    |->
          [ r \in Roles |->
              CASE r = "primary"        -> LAB(88587, -75488, 42908)   \* #00ff88
                [] r = "secondary"      -> LAB(78637, -28337, -33086)   \* #00d4ff
                [] r = "accent"         -> LAB(60324, 98234, -60825)   \* #ff00ff
                [] r = "background"     -> LAB(2855, 798, -2172)   \* #0a0a0f
                [] r = "surface"        -> LAB(6805, 3412, -8299)   \* #141420
                [] r = "text_primary"   -> LAB(90666, 539, -1458)   \* #e4e4e7
                [] r = "text_secondary" -> LAB(66496, 1759, -4656)   \* #a1a1aa
          ],
      layout     |->
          [ density          |-> 450,
            corner_radius    |-> 8000,
            margin_factor    |-> 50,
            padding_factor   |-> 40,
            shadow_intensity |-> 0,
            border_width     |-> 1000 ],
      visual_style_prompt |->
          "cyberpunk, neon glow, dark mode, futuristic, matrix grid, tech noir",
      tags       |-> << "dark", "cyber", "neon", "futuristic", "tech" >> ]

CREATIVE_BOLD ==
    [ gene_id    |-> "creative_bold",
      name       |-> "Creative Bold",
      typography |->
          [ heading_font   |-> "Playfair Display",
            body_font      |-> "Source Sans Pro",
            heading_weight |-> "700",
            body_weight    |-> "400",
            base_size_pt   |-> 16000,
            scale_ratio    |-> 1414,
            line_height    |-> 1500,
            letter_spacing |-> 0 ],
      palette    |->
          [ r \in Roles |->
              CASE r = "primary"        -> LAB(47940, 66944, 46913)   \* #dc2626
                [] r = "secondary"      -> LAB(56589, 53811, 64061)   \* #ea580c
                [] r = "accent"         -> LAB(80685, 9143, 77216)   \* #fbbf24
                [] r = "background"     -> LAB(98533, -1362, 8133)   \* #fffbeb
                [] r = "surface"        -> LAB(100000, 0, 0)   \* #ffffff
                [] r = "text_primary"   -> LAB(9025, 1003, 1935)   \* #1c1917
                [] r = "text_secondary" -> LAB(35524, 619, 3507)   \* #57534e
          ],
      layout     |->
          [ density          |-> 500,
            corner_radius    |-> 0,
            margin_factor    |-> 70,
            padding_factor   |-> 40,
            shadow_intensity |-> 200,
            border_width     |-> 0 ],
      visual_style_prompt |->
          "bold creative, artistic, warm colors, expressive, dynamic, energetic",
      tags       |-> << "creative", "bold", "artistic", "warm", "energetic" >> ]

NATURE_ORGANIC ==
    [ gene_id    |-> "nature_organic",
      name       |-> "Nature Organic",
      typography |->
          [ heading_font   |-> "Lora",
            body_font      |-> "Open Sans",
            heading_weight |-> "500",
            body_weight    |-> "400",
            base_size_pt   |-> 15000,
            scale_ratio    |-> 1250,
            line_height    |-> 1700,
            letter_spacing |-> 0 ],
      palette    |->
          [ r \in Roles |->
              CASE r = "primary"        -> LAB(37345, -35329, 21175)   \* #166534
                [] r = "secondary"      -> LAB(46887, -44272, 28222)   \* #15803d
                [] r = "accent"         -> LAB(74918, -46780, 71596)   \* #84cc16
                [] r = "background"     -> LAB(98156, -5863, 2829)   \* #f0fdf4
                [] r = "surface"        -> LAB(100000, 0, 0)   \* #ffffff
                [] r = "text_primary"   -> LAB(30698, -29495, 16692)   \* #14532d
                [] r = "text_secondary" -> LAB(47010, -32797, 48233)   \* #4d7c0f
          ],
      layout     |->
          [ density          |-> 350,
            corner_radius    |-> 24000,
            margin_factor    |-> 90,
            padding_factor   |-> 40,
            shadow_intensity |-> 80,
            border_width     |-> 0 ],
      visual_style_prompt |->
          "organic nature, green sustainable, eco-friendly, natural, peaceful",
      tags       |-> << "nature", "organic", "green", "sustainable", "calm" >> ]

\* A gene built by a caller: StyleGene(gene_id="custom", name="Custom",
\* typography=TypographyParams(letter_spacing=0.05),
\* layout=LayoutPhysics(border_width=2.0), tags=["custom", "modern"]), the
\* other fields being the defaults of the dataclasses.
CUSTOM_GENE ==
    [ gene_id    |-> "custom",
      name       |-> "Custom",
      typography |->
          [ heading_font   |-> "Inter",
            body_font      |-> "Inter",
            heading_weight |-> "700",
            body_weight    |-> "400",
            base_size_pt   |-> 16000,
            scale_ratio    |-> 1250,
            line_height    |-> 1500,
            letter_spacing |-> 50 ],
      palette    |->
          [ r \in Roles |->
              CASE r = "primary"        -> LAB(46059, 30958, -73825)   \* #2563eb
                [] r = "secondary"      -> LAB(43396, 64797, -79089)   \* #7c3aed
                [] r = "accent"         -> LAB(72159, 23493, 75225)   \* #f59e0b
                [] r = "background"     -> LAB(100000, 0, 0)   \* #ffffff
                [] r = "surface"        -> LAB(98176, -305, -1187)   \* #f8fafc
                [] r = "text_primary"   -> LAB(16393, 1067, -13019)   \* #1e293b
                [] r = "text_secondary" -> LAB(48340, -335, -14507)   \* #64748b
          ],
      layout     |->
          [ density          |-> 400,
            corner_radius    |-> 8000,
            margin_factor    |-> 80,
            padding_factor   |-> 40,
            shadow_intensity |-> 100,
            border_width     |-> 2000 ],
      visual_style_prompt |->
          "professional, clean, modern",
      tags       |-> << "custom", "modern" >> ]

STYLE_PRESETS ==
    [ id \in { "corporate_classic", "modern_minimal", "tech_startup",
               "dark_cyber", "creative_bold", "nature_organic" } |->
        CASE id = "corporate_classic" -> CORPORATE_CLASSIC
          [] id = "modern_minimal"    -> MODERN_MINIMAL
          [] id = "tech_startup"      -> TECH_STARTUP
          [] id = "dark_cyber"        -> DARK_CYBER
          [] id = "creative_bold"     -> CREATIVE_BOLD
          [] id = "nature_organic"    -> NATURE_ORGANIC ]

GetPresetDefaulting(preset_id) ==
    IF preset_id \notin DOMAIN STYLE_PRESETS
    THEN Returns(STYLE_PRESETS["modern_minimal"])
    ELSE Returns(STYLE_PRESETS[preset_id])

\* get_preset.
GetPreset(preset_id) ==
    IF preset_id \notin DOMAIN STYLE_PRESETS
    THEN Raises("ValueError")
    ELSE Returns(STYLE_PRESETS[preset_id])

\* breed_styles.
BreedStyles(parent_a_id, parent_b_id, alpha, order) ==
    LET parent_a == GetPreset(parent_a_id)
        parent_b == GetPreset(parent_b_id)
    IN  IF parent_a.raised # "" THEN parent_a
        ELSE IF parent_b.raised # "" THEN parent_b
        ELSE Returns(StyleGeneInterpolate(parent_a.value[1], parent_b.value[1],
                                          alpha, order))

\* The keys of STYLE_PRESETS in insertion order.
PresetIds ==
    << "corporate_classic", "modern_minimal", "tech_startup", "dark_cyber",
       "creative_bold", "nature_organic" >>

\* list_presets.
ListPresets ==
    [ k \in 1..Len(PresetIds) |->
        LET gene == STYLE_PRESETS[PresetIds[k]]
        IN  [ id             |-> gene.gene_id,
              name           |-> gene.name,
              tags           |-> gene.tags,
              preview_colors |-> ToHexDict(gene.palette) ] ]

\* Object identity.  A StyleGene object and the mutable objects it refers to
\* (its TypographyParams, its ColorPalette and the seven LABColor of it, its
\* LayoutPhysics, its list of tags) each have an address; the objects one
\* StyleGene(...) expression constructs are numbered by that construction.
Parts == { "gene", "typography", "palette", "layout", "tags" } \cup Roles

NewObjects(serial) == [ part \in Parts |-> << serial, part >> ]

\* A gene object: its value and the addresses of its objects.
Instance(gene, refs) == [ gene |-> gene, refs |-> refs ]

\* STYLE_PRESETS as loaded: the k-th preset constructed at import.
LoadedPresets ==
    [ id \in DOMAIN STYLE_PRESETS |->
        Instance(STYLE_PRESETS[id],
                 NewObjects(CHOOSE k \in 1..Len(PresetIds) : PresetIds[k] = id)) ]

InterpolateSharingTags(self, other, alpha, order, serial) ==
    Instance(StyleGeneInterpolate(self.gene, other.gene, alpha, order),
             [ NewObjects(serial) EXCEPT !["tags"] = self.refs["tags"] ])

\* StyleGene.interpolate on objects: TypographyParams(...), LABColor(...),
\* ColorPalette(...), LayoutPhysics(...), list(...) and StyleGene(...) each
\* construct a new object; serial numbers this construction.
InterpolateInstance(self, other, alpha, order, serial) ==
    Instance(StyleGeneInterpolate(self.gene, other.gene, alpha, order),
             NewObjects(serial))

\* The addresses of the objects of a gene object.
Objects(instance) == { instance.refs[part] : part \in Parts }

\* --------------------------------------- services/layout/pptx_compiler.py
\* A slide of the Presentation being built: what _add_title_slide and
\* _add_content_slide put on it.
PrsSlide(kind, title, body_text, speaker_notes) ==
    [ kind          |-> kind,
      title         |-> title,
      body_text     |-> body_text,
      speaker_notes |-> speaker_notes,
      visual_spec   |-> None ]

\* PPTXCompiler._add_title_slide.
AddTitleSlide(slides, title) ==
    Append(slides, PrsSlide("title", title, << >>, ""))

\* PPTXCompiler._add_content_slide(prs, slide_content): the title, every
\* line of body_text as a paragraph, and the speaker notes.
AddContentSlide(slides, slide_content) ==
    Append(slides,
           PrsSlide("content", slide_content.title, slide_content.body_text,
                    slide_content.speaker_notes))

\* compile, "Add visual element if specified": an image or a placeholder on
\* the slide just added.
AddVisualElement(slides, visual_spec) ==
    IF visual_spec # None /\ visual_spec[1].visual_type # "none"
    THEN [ slides EXCEPT ![Len(slides)].visual_spec = visual_spec ]
    ELSE slides

\* compile, "for i, slide_spec in enumerate(outline.slides)".
RECURSIVE AddContentSlides(_, _)
AddContentSlides(slides, outline_slides) ==
    IF outline_slides = << >>
    THEN slides
    ELSE AddContentSlides(
             AddVisualElement(AddContentSlide(slides, Head(outline_slides)),
                              Head(outline_slides).visual_spec),
             Tail(outline_slides))

\* Paginator.paginate_presentation, from result on.
RECURSIVE PaginatePresentationFrom(_, _, _)
PaginatePresentationFrom(cap, slides, result) ==
    IF slides = << >>
    THEN result
    ELSE PaginatePresentationFrom(
             cap, Tail(slides),
             Extend(result, PaginateSlideContent(cap, Head(slides))))

\* PPTXCompiler.compile(outline), with the compiler's Paginator(): the
\* local paginated_slides and the slides of the Presentation it saves.
Compile(outline_arg) ==
    [ paginated_slides |->
          PaginatePresentationFrom(CONTENT_AREA_PT, outline_arg.slides, << >>),
      slides |->
          AddContentSlides(AddTitleSlide(<< >>, outline_arg.title),
                           outline_arg.slides) ]

\* The path compile saves to: output_dir / "<safe title>_<timestamp>.pptx".
OutputPath(title, now) ==
    [ output_dir |-> "presentations", safe_title |-> title, timestamp |-> now ]

\* ----------------------------------------------------- backend/main.py
\* _presentations_store = {}.
EmptyStore == [ id \in { } |-> None ]

\* PresentationModel(id=, title=, slideCount=, styleId=) with the defaults of
\* its other fields; createdAt is datetime.now().
PresentationModel(id, title, slide_count, style_id, now) ==
    [ id         |-> id,
      title      |-> title,
      thumbnail  |-> "sparkles",
      createdAt  |-> now,
      updatedAt  |-> None,
      isPrivate  |-> TRUE,
      author     |-> "you",
      isFavorite |-> FALSE,
      slideCount |-> Some(slide_count),
      styleId    |-> Some(style_id) ]

\* "_presentations_store[id] = presentation".
AddPresentationRecord(st, id, title, slide_count, style_id, now) ==
    [ k \in DOMAIN st \cup { id } |->
        IF k = id
        THEN PresentationModel(id, title, slide_count, style_id, now)
        ELSE st[k] ]

\* get_presentation on an id of the store: "pres.updatedAt = ...".
GetPresentation(st, presentation_id, now) ==
    [ st EXCEPT ![presentation_id].updatedAt = Some(now) ]

UpdateEveryPresentation(st, presentation_id, request, now) ==
    [ k \in DOMAIN st |->
        [ st[k] EXCEPT
            !.title = IF request.title # None THEN request.title[1] ELSE @,
            !.updatedAt = Some(now) ] ]

\* update_presentation on an id of the store: the fields of the request
\* that are not None, then updatedAt.
UpdatePresentation(st, presentation_id, request, now) ==
    [ st EXCEPT
        ![presentation_id] =
            [ @ EXCEPT
                !.title = IF request.title # None THEN request.title[1] ELSE @,
                !.isPrivate =
                    IF request.isPrivate # None THEN request.isPrivate[1]
                    ELSE @,
                !.isFavorite =
                    IF request.isFavorite # None THEN request.isFavorite[1]
                    ELSE @,
                !.thumbnail =
                    IF request.thumbnail # None THEN request.thumbnail[1]
                    ELSE @,
                !.updatedAt = Some(now) ] ]

\* "del _presentations_store[presentation_id]".
DeletePresentation(st, presentation_id) ==
    [ k \in DOMAIN st \ { presentation_id } |-> st[k] ]

\* ------------------------------------------------------------------ inputs
\* Body lines: texts of one character.
Lines == { << c >> : c \in 1..MaxChar }

RECURSIVE SeqsUpTo(_, _)
SeqsUpTo(S, n) ==
    IF n = 0
    THEN { << >> }
    ELSE LET shorter == SeqsUpTo(S, n - 1)
         IN  shorter \cup
             { Append(s, x) : s \in { t \in shorter : Len(t) = n - 1 }, x \in S }

\* The end-to-end scenario's body: 40 distinct lines.
ScenarioBody == [ j \in 1..40 |-> << j >> ]

Bodies == SeqsUpTo(Lines, MaxLines) \cup { ScenarioBody }

VisualSpecs ==
    { None, Some(VisualSpec("none", "")), Some(VisualSpec("image", "a photo")) }

SlideContents ==
    { SlideContent("Title", b, v, n) :
        b \in Bodies, v \in VisualSpecs, n \in { "", "notes" } }

\* The slides the presentations handed to paginate_presentation are made of.
DeckSlides ==
    { s \in SlideContents :
        /\ Len(s.body_text) \in { 0, 1, MaxLines }
        /\ \A j \in 1..Len(s.body_text) : s.body_text[j] = << (j % MaxChar) + 1 >>
        /\ s.visual_spec # Some(VisualSpec("none", "")) }

Caps == (-1..MaxCap) \cup { CONTENT_AREA_PT, 2 * CONTENT_AREA_PT }

\* Genes handed to StyleGene.interpolate: the presets and a caller's gene.
Genes == { STYLE_PRESETS[id] : id \in DOMAIN STYLE_PRESETS } \cup { CUSTOM_GENE }

\* Ids handed to get_preset and breed_styles.
PresetIdArgs == DOMAIN STYLE_PRESETS \cup { "no_such_preset" }

\* Mixing factors, in thousandths.
Alphas ==
    { 0 - AlphaOver, -1, 0, 1, Unit \div 4, 255, Half - 1, Half, Half + 1,
      3 * (Unit \div 4), Unit - 1, Unit, Unit + 1, Unit + AlphaOver }

RECURSIVE Dedup(_)
Dedup(s) ==
    IF s = << >>
    THEN << >>
    ELSE LET rest == Dedup(SubSeq(s, 1, Len(s) - 1))
         IN  IF s[Len(s)] \in SeqToSet(rest) THEN rest ELSE Append(rest, s[Len(s)])

\* Every tag of the drawn genes, once.
TagUniverse ==
    Dedup(CORPORATE_CLASSIC.tags \o MODERN_MINIMAL.tags \o TECH_STARTUP.tags
          \o DARK_CYBER.tags \o CREATIVE_BOLD.tags \o NATURE_ORGANIC.tags
          \o CUSTOM_GENE.tags)

Reverse(s) == [ j \in 1..Len(s) |-> s[Len(s) + 1 - j] ]

\* The iteration order of sets of tags in the process with this hash seed.
TagOrder(seed) ==
    LET n == Len(TagUniverse)
        shift == (7 * (seed - 1)) % n
        rotated == SubSeq(TagUniverse, shift + 1, n) \o SubSeq(TagUniverse, 1, shift)
    IN  IF seed % 2 = 1 THEN rotated ELSE Reverse(rotated)

\* Channel values of the drawn colours: 1, 10 and 11 besides the steps
\* (gamma_correct changes branch between 10/255 and 11/255).
ChannelSamples ==
    { (k * 255) \div ChannelSteps : k \in 0..ChannelSteps } \cup { 1, 10, 11 }

\* f"{v:02X}".
UpperHex02(v) ==
    LET digits == SubSeq(HexDigits, 1, 10) \o UpperDigits
    IN  << digits[(v \div 16) + 1], digits[(v % 16) + 1] >>

\* Valid colours: six lower-case digits, the same after "#", and six
\* upper-case digits.
ValidHexes ==
    UNION { { Hex02(r) \o Hex02(g) \o Hex02(b),
              << "#" >> \o Hex02(r) \o Hex02(g) \o Hex02(b),
              UpperHex02(r) \o UpperHex02(g) \o UpperHex02(b) } :
            r \in ChannelSamples, g \in ChannelSamples, b \in ChannelSamples }

\* Texts that need not be colours: a digit, a letter that is no digit, the
\* "#" and a blank, in any order.
HexAlphabet == { "f", "g", "#", " " }

HexArgs == ValidHexes \cup SeqsUpTo(HexAlphabet, MaxHexLen)

\* Dicts handed to ColorPalette.from_hex_dict: any of primary and accent
\* supplied, as a colour, a text one digit short or a text with a letter
\* that is no digit.
ColorDicts ==
    LET supplied ==
            { None,
              Some(<< "#", "1", "e", "3", "a", "5", "f" >>),
              Some(<< "#", "1", "e", "3", "a", "5" >>),
              Some(<< "g", "g", "g", "g", "g", "g" >>) }
    IN  { [ role \in Roles |->
              IF role = "primary" THEN p
              ELSE IF role = "accent" THEN a
              ELSE None ] : p \in supplied, a \in supplied }

\* Ids and mixing factors of the breedings that are chained.
ChainParentIds == { "corporate_classic", "dark_cyber", "creative_bold" }

ChainAlphas == { Unit \div 4, Unit }

\* ContentBlocks handed to _estimate_block_height: every type, with no text
\* or a text of 150 characters, every pre-set height up to MaxPreset, and
\* either keep_with_next.
Texts == { << >>, [ j \in 1..150 |-> 1 ] }

BlockArgs ==
    { [ ContentBlock(t, text, h) EXCEPT !.keep_with_next = k ] :
        t \in BlockType, text \in Texts, h \in 0..MaxPreset, k \in BOOLEAN }

\* Blocks handed to the packing: headings, quotes and bullet items, with a
\* height from the table (estimated_height_pt = 0) or a pre-set one.
PackAlphabet ==
    { [ ContentBlock(t, << >>, h) EXCEPT !.keep_with_next = k ] :
        t \in { "heading", "quote", "bullet_list" },
        h \in { 0, BLOCK_HEIGHTS["bullet_list"] }, k \in BOOLEAN }

BlockCaps == { 60, 85, 120, CONTENT_AREA_PT }

\* Outlines handed to the compiler: up to MaxDeck slides, each with one line
\* or with the forty lines of ScenarioBody, with or without an image and
\* speaker notes.
OutlineSlides ==
    { SlideContent("Title", b, v, n) :
        b \in { << << 1 >> >>, ScenarioBody },
        v \in { None, Some(VisualSpec("image", "a photo")) },
        n \in { "", "notes" } }

Outlines ==
    { [ title |-> "Deck", slides |-> ss ] :
        ss \in SeqsUpTo(OutlineSlides, MaxDeck) }

\* Style ids handed to the compiler and the routes.
StyleIdArgs == { "modern_minimal", "dark_cyber", "no_such_preset" }

\* Ids, and requests of update and patch: nothing set, the title, the
\* favourite flag, or all four fields.
StoreIds == { "p1", "p2" }

UpdateRequests ==
    { [ title |-> None, isPrivate |-> None, isFavorite |-> None,
        thumbnail |-> None ],
      [ title |-> Some("Renamed"), isPrivate |-> None, isFavorite |-> None,
        thumbnail |-> None ],
      [ title |-> None, isPrivate |-> None, isFavorite |-> Some(TRUE),
        thumbnail |-> None ],
      [ title |-> Some("Renamed"), isPrivate |-> Some(FALSE),
        isFavorite |-> Some(TRUE), thumbnail |-> Some("star") ] }

\* Two calls run at a time, each in a thread of its own.
Threads == { 1, 2 }

\* The slides, capacities, ids and mixing factor of the concurrent calls.
ConcSlides ==
    { SlideContent(<< c >>, [ j \in 1..n |-> << c >> ], None, << c >>) :
        n \in 0..MaxLines, c \in 1..MaxChar }

ConcCaps == { 30, 50, CONTENT_AREA_PT }

ConcIds == { "corporate_classic", "dark_cyber" }

ConcAlpha == Unit \div 4

\* The locals of a call: nothing is called yet.
IdleFrame ==
    [ pc       |-> "idle",
      op       |-> "none",
      slide    |-> None,
      blocks   |-> << >>,
      st       |-> None,
      ids      |-> << >>,
      alpha    |-> 0,
      parent_a |-> None,
      parent_b |-> None,
      returns  |-> [ raised |-> "", value |-> None ],
      reads    |-> { },
      writes   |-> { },
      overlap  |-> FALSE ]

\* ------------------------------------------------------------------- state
VARIABLES
    registry,            \* STYLE_PRESETS: id -> the gene object
    bred,                \* the gene objects bred so far, oldest first
    thread,              \* concurrent calls: thread -> the call's locals
    hex_color,           \* from_hex: the text passed
    colors,              \* from_hex_dict: the dict passed (Optional)
    max_content_height,  \* Paginator.max_content_height
    pc,                  \* "idle", "running" or "returned"
    op,                  \* the operation called
    slide,               \* its SlideContent argument (Optional)
    specs,               \* the list of SlideSpec it returned
    layout,              \* the LayoutType it returned (Optional)
    slides,              \* paginate_presentation: the argument
    result,              \* paginate_presentation: the local result
    done,                \* paginate_presentation: slides consumed so far
    hash_seed,           \* the process's string hash seed
    parent_ids,          \* get_preset, breed_styles: the ids passed
    parents,             \* interpolate: << self, other >>
    alpha,               \* interpolate, breed_styles: the mixing factor
    outcome,             \* the call's exception or returned value
    block_args,          \* the ContentBlocks passed to a call
    height,              \* _estimate_block_height: the returned height
    score,               \* calculate_density_score: << slide, score >>
    outline,             \* compile: the PresentationOutline (Optional)
    prs,                 \* compile: the slides of the Presentation
    style,               \* PPTXCompiler.style: its gene's id (Optional)
    files,               \* the .pptx files saved in presentations/
    store,               \* main._presentations_store: id -> record
    clock,               \* datetime.now(), in ticks
    history              \* the store before the last call, and the ids
                         \* added and not deleted since

layout_vars == << slide, specs, layout, slides, result, done >>

style_vars == << parent_ids, parents, alpha, outcome >>

aux_vars == << registry, bred, thread >>

block_vars == << block_args, height, score >>

compile_vars == << outline, prs, style >>

\* What outlives a call.
store_vars == << files, store, clock, history >>

service_vars == << block_vars, compile_vars, store_vars >>

color_vars == << hex_color, colors >>

vars == << registry, bred, thread, hex_color, colors, max_content_height, pc, op, slide, specs, layout, slides, result,
           done, hash_seed, parent_ids, parents, alpha, outcome, block_args, height,
           score, outline, prs, style, files, store, clock, history >>

NoCall ==
    /\ pc = "idle"
    /\ op = "none"
    /\ slide = None
    /\ specs = << >>
    /\ layout = None
    /\ slides = << >>
    /\ result = << >>
    /\ done = 0
    /\ parent_ids = << >>
    /\ parents = << >>
    /\ alpha = 0
    /\ outcome = [ raised |-> "", value |-> None ]
    /\ hex_color = << >>
    /\ colors = None
    /\ block_args = << >>
    /\ height = None
    /\ score = << >>
    /\ outline = None
    /\ prs = << >>
    /\ style = None

\* The process has imported presets.py and main.py and has bred nothing yet.
Loaded ==
    /\ registry = LoadedPresets
    /\ bred = << >>
    /\ thread = [ T \in Threads |-> IdleFrame ]
    /\ files = { }
    /\ store = EmptyStore
    /\ clock = 0
    /\ history = [ before |-> EmptyStore, live |-> { } ]

\* Paginator.__init__ with any max_content_height.
Init ==
    /\ max_content_height \in Caps
    /\ hash_seed = 1
    /\ NoCall
    /\ Loaded

\* A call of Paginator.paginate_slide_content(slide), to its return.
PaginateSlideContentCall ==
    /\ pc = "idle"
    /\ \E s \in SlideContents :
        /\ slide' = Some(s)
        /\ specs' = PaginateSlideContent(max_content_height, s)
    /\ op' = "paginate_slide_content"
    /\ pc' = "returned"
    /\ UNCHANGED << aux_vars, service_vars, color_vars, max_content_height, layout, slides, result, done,
                    hash_seed, style_vars >>

\* A call of LayoutOptimizer.suggest_layout(slide), to its return.
SuggestLayoutCall ==
    /\ pc = "idle"
    /\ \E s \in SlideContents :
        /\ slide' = Some(s)
        /\ layout' = Some(SuggestLayout(s))
    /\ op' = "suggest_layout"
    /\ pc' = "returned"
    /\ UNCHANGED << aux_vars, service_vars, color_vars, max_content_height, specs, slides, result, done,
                    hash_seed, style_vars >>

\* paginate_presentation(slides) is entered: result = [].
PaginatePresentationCall ==
    /\ pc = "idle"
    /\ slides' \in SeqsUpTo(DeckSlides, MaxDeck)
    /\ result' = << >>
    /\ done' = 0
    /\ op' = "paginate_presentation"
    /\ pc' = "running"
    /\ UNCHANGED << aux_vars, service_vars, color_vars, max_content_height, slide, specs, layout, hash_seed,
                    style_vars >>

\* One iteration of "for slide in slides".
PaginatePresentationStep ==
    /\ pc = "running"
    /\ done < Len(slides)
    /\ LET paginated ==
               PaginateSlideContent(max_content_height, slides[done + 1])
       IN  result' = Extend(result, paginated)
    /\ done' = done + 1
    /\ UNCHANGED << aux_vars, service_vars, color_vars, max_content_height, pc, op, slide, specs, layout, slides,
                    hash_seed, style_vars >>

\* "return result".
PaginatePresentationReturn ==
    /\ pc = "running"
    /\ done = Len(slides)
    /\ specs' = result
    /\ pc' = "returned"
    /\ UNCHANGED << aux_vars, service_vars, color_vars, max_content_height, op, slide, layout, slides, result,
                    done, hash_seed, style_vars >>

\* The caller is done with the returned value; the Paginator and the
\* process are kept for the next call.
Discard ==
    /\ pc = "returned"
    /\ pc' = "idle"
    /\ op' = "none"
    /\ slide' = None
    /\ specs' = << >>
    /\ layout' = None
    /\ slides' = << >>
    /\ result' = << >>
    /\ done' = 0
    /\ parent_ids' = << >>
    /\ parents' = << >>
    /\ alpha' = 0
    /\ outcome' = [ raised |-> "", value |-> None ]
    /\ hex_color' = << >>
    /\ colors' = None
    /\ block_args' = << >>
    /\ height' = None
    /\ score' = << >>
    /\ outline' = None
    /\ prs' = << >>
    /\ style' = None
    /\ UNCHANGED << aux_vars, store_vars, max_content_height, hash_seed >>

\* A call of LayoutOptimizer.calculate_density_score(slide) on a SlideSpec
\* that paginate_slide_content returned, to its return.
CalculateDensityScoreCall ==
    /\ pc = "returned"
    /\ op = "paginate_slide_content"
    /\ \E j \in 1..Len(specs) :
        score' = << specs[j], CalculateDensityScore(specs[j]) >>
    /\ op' = "calculate_density_score"
    /\ UNCHANGED << aux_vars, compile_vars, store_vars, color_vars,
                    max_content_height, pc, hash_seed, layout_vars,
                    style_vars, block_args, height >>

Next ==
    \/ PaginateSlideContentCall
    \/ CalculateDensityScoreCall
    \/ SuggestLayoutCall
    \/ PaginatePresentationCall
    \/ PaginatePresentationStep
    \/ PaginatePresentationReturn
    \/ Discard

Spec == Init /\ [][Next]_vars

\* ------------------------------------------------------------ style calls
\* A process with the presets loaded and a default Paginator().
InitStyle ==
    /\ max_content_height = CONTENT_AREA_PT
    /\ hash_seed \in 1..MaxSeed
    /\ NoCall
    /\ Loaded

\* A call of self.interpolate(other, alpha), to its return.
InterpolateCall ==
    /\ pc = "idle"
    /\ \E self \in Genes, other \in Genes, t \in Alphas :
        /\ parents' = << self, other >>
        /\ alpha' = t
        /\ outcome' =
               Returns(StyleGeneInterpolate(self, other, t, TagOrder(hash_seed)))
    /\ op' = "interpolate"
    /\ pc' = "returned"
    /\ UNCHANGED << aux_vars, service_vars, color_vars, max_content_height, hash_seed, layout_vars, parent_ids >>

\* A call of breed_styles(parent_a_id, parent_b_id, alpha), to its return
\* or to the exception it raises.
BreedStylesCall ==
    /\ pc = "idle"
    /\ \E a \in PresetIdArgs, b \in PresetIdArgs, t \in Alphas :
        /\ parent_ids' = << a, b >>
        /\ alpha' = t
        /\ outcome' = BreedStyles(a, b, t, TagOrder(hash_seed))
    /\ op' = "breed_styles"
    /\ pc' = "returned"
    /\ UNCHANGED << aux_vars, service_vars, color_vars, max_content_height, hash_seed, layout_vars, parents >>

\* A call of get_preset(preset_id), to its return or to its exception.
GetPresetCall ==
    /\ pc = "idle"
    /\ \E id \in PresetIdArgs :
        /\ parent_ids' = << id >>
        /\ outcome' = GetPreset(id)
    /\ op' = "get_preset"
    /\ pc' = "returned"
    /\ UNCHANGED << aux_vars, service_vars, color_vars, max_content_height, hash_seed, layout_vars, parents, alpha >>

\* A call of list_presets(), to its return.
ListPresetsCall ==
    /\ pc = "idle"
    /\ outcome' = Returns(ListPresets)
    /\ op' = "list_presets"
    /\ pc' = "returned"
    /\ UNCHANGED << aux_vars, service_vars, color_vars, max_content_height, hash_seed,
                    layout_vars, parent_ids, parents, alpha >>

NextStyle ==
    \/ InterpolateCall
    \/ BreedStylesCall
    \/ GetPresetCall
    \/ ListPresetsCall
    \/ Discard

SpecStyle == InitStyle /\ [][NextStyle]_vars

\* ----------------------------------------------------------- colour calls
\* A call of LABColor.from_hex(hex_color), to its return or its exception.
FromHexCall ==
    /\ pc = "idle"
    /\ \E h \in HexArgs :
        /\ hex_color' = h
        /\ outcome' = FromHex(h)
    /\ op' = "from_hex"
    /\ pc' = "returned"
    /\ UNCHANGED << aux_vars, service_vars, colors, max_content_height, hash_seed,
                    layout_vars, parent_ids, parents, alpha >>

\* The colour from_hex returned is converted back: a call of to_hex() on it.
ToHexCall ==
    /\ pc = "returned"
    /\ op = "from_hex"
    /\ outcome.raised = ""
    /\ outcome' = Returns(ToHex(outcome.value[1]))
    /\ op' = "to_hex"
    /\ UNCHANGED << aux_vars, service_vars, color_vars, max_content_height, pc, hash_seed,
                    layout_vars, parent_ids, parents, alpha >>

\* A call of ColorPalette.from_hex_dict(colors).
FromHexDictCall ==
    /\ pc = "idle"
    /\ \E c \in ColorDicts :
        /\ colors' = Some(c)
        /\ outcome' = FromHexDict(c)
    /\ op' = "from_hex_dict"
    /\ pc' = "returned"
    /\ UNCHANGED << aux_vars, service_vars, hex_color, max_content_height, hash_seed,
                    layout_vars, parent_ids, parents, alpha >>

NextColor ==
    \/ FromHexCall
    \/ ToHexCall
    \/ FromHexDictCall
    \/ Discard

SpecColor == InitStyle /\ [][NextColor]_vars

\* ------------------------------------------------------- chained breeding
\* The gene objects the process holds.
Held == { registry[id] : id \in DOMAIN registry } \cup SeqToSet(bred)

\* The genes a chained breeding takes its parents from.
ChainParents == { registry[id] : id \in ChainParentIds } \cup SeqToSet(bred)

\* A call of self.interpolate(other, alpha) on two genes the process holds,
\* bred ones included; the caller keeps the child.
ChainInterpolateCall ==
    /\ pc = "idle"
    /\ Len(bred) < MaxBred
    /\ \E self \in ChainParents, other \in ChainParents, t \in ChainAlphas :
        LET child ==
                InterpolateInstance(self, other, t, TagOrder(hash_seed),
                                    Len(PresetIds) + Len(bred) + 1)
        IN  /\ parents' = << self, other >>
            /\ alpha' = t
            /\ bred' = Append(bred, child)
            /\ outcome' = Returns(child)
    /\ registry' = registry
    /\ op' = "interpolate"
    /\ pc' = "returned"
    /\ UNCHANGED << thread, service_vars, color_vars, max_content_height, hash_seed,
                    layout_vars, parent_ids >>

\* A call of breed_styles(parent_a_id, parent_b_id, alpha): get_preset of
\* both ids, then parent_a.interpolate(parent_b, alpha).
ChainBreedStylesCall ==
    /\ pc = "idle"
    /\ Len(bred) < MaxBred
    /\ \E a \in ChainParentIds \cup { "no_such_preset" }, b \in ChainParentIds,
          t \in ChainAlphas :
        /\ parent_ids' = << a, b >>
        /\ alpha' = t
        /\ IF a \notin DOMAIN registry
           THEN /\ outcome' = Raises("ValueError")
                /\ UNCHANGED << bred, parents >>
           ELSE LET child ==
                        InterpolateInstance(registry[a], registry[b], t,
                                            TagOrder(hash_seed),
                                            Len(PresetIds) + Len(bred) + 1)
                IN  /\ parents' = << registry[a], registry[b] >>
                    /\ bred' = Append(bred, child)
                    /\ outcome' = Returns(child)
    /\ registry' = registry
    /\ op' = "breed_styles"
    /\ pc' = "returned"
    /\ UNCHANGED << thread, service_vars, color_vars, max_content_height, hash_seed,
                    layout_vars >>

\* A call of get_preset(preset_id): the object in STYLE_PRESETS itself is
\* returned.
ChainGetPresetCall ==
    /\ pc = "idle"
    /\ \E id \in ChainParentIds \cup { "no_such_preset" } :
        /\ parent_ids' = << id >>
        /\ outcome' =
               IF id \notin DOMAIN registry
               THEN Raises("ValueError")
               ELSE Returns(registry[id])
    /\ op' = "get_preset"
    /\ pc' = "returned"
    /\ UNCHANGED << aux_vars, service_vars, color_vars, max_content_height, hash_seed,
                    layout_vars, parents, alpha >>

\* A call of list_presets(): a new list of new dicts.
ChainListPresetsCall ==
    /\ pc = "idle"
    /\ outcome' = Returns(ListPresets)
    /\ op' = "list_presets"
    /\ pc' = "returned"
    /\ UNCHANGED << aux_vars, service_vars, color_vars, max_content_height, hash_seed,
                    layout_vars, parent_ids, parents, alpha >>

NextBreed ==
    \/ ChainInterpolateCall
    \/ ChainBreedStylesCall
    \/ ChainGetPresetCall
    \/ ChainListPresetsCall
    \/ Discard

SpecBreed == InitStyle /\ [][NextBreed]_vars

\* ------------------------------------------------------ calls on blocks
\* A Paginator of some capacity.
InitBlocks ==
    /\ max_content_height \in BlockCaps
    /\ hash_seed = 1
    /\ NoCall
    /\ Loaded

call_vars ==
    << slide, layout, slides, result, done, parent_ids, parents, alpha >>

\* A call of self._estimate_block_height(block), to its return.
EstimateBlockHeightCall ==
    /\ pc = "idle"
    /\ \E block \in BlockArgs :
        /\ block_args' = << block >>
        /\ height' = Some(EstimateBlockHeight(block))
    /\ op' = "_estimate_block_height"
    /\ pc' = "returned"
    /\ UNCHANGED << aux_vars, compile_vars, store_vars, color_vars,
                    max_content_height, hash_seed, call_vars, specs, outcome,
                    score >>

\* A call of self._should_keep_together(current_block, next_block), to its
\* return.
ShouldKeepTogetherCall ==
    /\ pc = "idle"
    /\ \E current_block \in PackAlphabet, next_block \in PackAlphabet :
        /\ block_args' = << current_block, next_block >>
        /\ outcome' = Returns(ShouldKeepTogether(current_block, next_block))
    /\ op' = "_should_keep_together"
    /\ pc' = "returned"
    /\ UNCHANGED << aux_vars, compile_vars, store_vars, color_vars,
                    max_content_height, hash_seed, call_vars, specs, height,
                    score >>

\* paginate_slide_content from its list of blocks on, to its return.
PaginateBlocksCall ==
    /\ pc = "idle"
    /\ \E bs \in SeqsUpTo(PackAlphabet, MaxBlocks) :
        /\ block_args' = bs
        /\ slide' = Some(SlideContent(<< 1 >>, << >>, None, << 1 >>))
        /\ specs' = PaginateBlocks(max_content_height, slide'[1], bs)
    /\ op' = "paginate_blocks"
    /\ pc' = "returned"
    /\ UNCHANGED << aux_vars, compile_vars, store_vars, color_vars,
                    max_content_height, hash_seed, layout, slides, result,
                    done, style_vars, height, score >>

NextBlocks ==
    \/ EstimateBlockHeightCall
    \/ ShouldKeepTogetherCall
    \/ PaginateBlocksCall
    \/ Discard

SpecBlocks == InitBlocks /\ [][NextBlocks]_vars

\* ------------------------------------------------------- compiler calls
\* A call that compiles names the style by its gene_id in style, leaves the
\* Presentation's slides in prs and the saved file in files.
unused_vars ==
    << aux_vars, block_vars, color_vars, max_content_height, hash_seed, slide,
       layout, slides, result, done, parents, alpha, store, clock, history >>

\* PPTXCompiler(style).compile(outline), to its return; style is None or a
\* gene ("self.style = style or MODERN_MINIMAL").
CompileCall ==
    /\ pc = "idle"
    /\ \E o \in Outlines, s \in { None, Some(DARK_CYBER) } :
        /\ outline' = Some(o)
        /\ style' = Some(IF s = None THEN MODERN_MINIMAL.gene_id
                         ELSE s[1].gene_id)
        /\ specs' = Compile(o).paginated_slides
        /\ prs' = Compile(o).slides
        /\ files' = files \cup { OutputPath(o.title, clock) }
        /\ outcome' = Returns(OutputPath(o.title, clock))
    /\ parent_ids' = << >>
    /\ op' = "compile"
    /\ pc' = "returned"
    /\ UNCHANGED unused_vars

\* compiler.compile_with_style(outline, style_id), to its return or to the
\* exception of get_preset.
CompileWithStyleCall ==
    /\ pc = "idle"
    /\ \E o \in Outlines, style_id \in StyleIdArgs :
        /\ outline' = Some(o)
        /\ parent_ids' = << style_id >>
        /\ IF GetPreset(style_id).raised # ""
           THEN /\ outcome' = GetPreset(style_id)
                /\ style' = Some(MODERN_MINIMAL.gene_id)
                /\ UNCHANGED << specs, prs, files >>
           ELSE /\ style' = Some(GetPreset(style_id).value[1].gene_id)
                /\ specs' = Compile(o).paginated_slides
                /\ prs' = Compile(o).slides
                /\ files' = files \cup { OutputPath(o.title, clock) }
                /\ outcome' = Returns(OutputPath(o.title, clock))
    /\ op' = "compile_with_style"
    /\ pc' = "returned"
    /\ UNCHANGED unused_vars

\* generate_pptx(outline, style_id): PPTXCompiler() and compile_with_style.
GeneratePptxCall ==
    /\ pc = "idle"
    /\ \E o \in Outlines, style_id \in StyleIdArgs :
        /\ outline' = Some(o)
        /\ parent_ids' = << style_id >>
        /\ IF GetPreset(style_id).raised # ""
           THEN /\ outcome' = GetPreset(style_id)
                /\ style' = Some(MODERN_MINIMAL.gene_id)
                /\ UNCHANGED << specs, prs, files >>
           ELSE /\ style' = Some(GetPreset(style_id).value[1].gene_id)
                /\ specs' = Compile(o).paginated_slides
                /\ prs' = Compile(o).slides
                /\ files' = files \cup { OutputPath(o.title, clock) }
                /\ outcome' = Returns(OutputPath(o.title, clock))
    /\ op' = "generate_pptx"
    /\ pc' = "returned"
    /\ UNCHANGED unused_vars

\* The route compile_from_outline(outline, style_id): generate_pptx, any
\* exception of it answered as HTTPException(500).
CompileFromOutlineCall ==
    /\ pc = "idle"
    /\ \E o \in Outlines, style_id \in StyleIdArgs :
        /\ outline' = Some(o)
        /\ parent_ids' = << style_id >>
        /\ IF GetPreset(style_id).raised # ""
           THEN /\ outcome' = Raises("HTTPException 500")
                /\ style' = Some(MODERN_MINIMAL.gene_id)
                /\ UNCHANGED << specs, prs, files >>
           ELSE /\ style' = Some(GetPreset(style_id).value[1].gene_id)
                /\ specs' = Compile(o).paginated_slides
                /\ prs' = Compile(o).slides
                /\ files' = files \cup { OutputPath(o.title, clock) }
                /\ outcome' =
                       Returns([ success   |-> TRUE,
                                 file_path |-> OutputPath(o.title, clock) ])
    /\ op' = "compile_from_outline"
    /\ pc' = "returned"
    /\ UNCHANGED unused_vars

\* The route generate_presentation(request): the outline is whatever
\* expand_content returns, or expand_content raises; "try: style =
\* get_preset(request.style_id) except ValueError: style =
\* get_preset("modern_minimal")"; PPTXCompiler(style=style).compile(outline).
GeneratePresentationCall ==
    /\ pc = "idle"
    /\ \E expanded \in { None } \cup { Some(o) : o \in Outlines },
          style_id \in StyleIdArgs :
        /\ parent_ids' = << style_id >>
        /\ outline' = expanded
        /\ IF expanded = None
           THEN /\ outcome' =
                       Returns([ success |-> FALSE, file_path |-> None ])
                /\ UNCHANGED << style, specs, prs, files >>
           ELSE LET got == GetPreset(style_id)
                    gene == IF got.raised = "ValueError"
                            THEN GetPreset("modern_minimal").value[1]
                            ELSE got.value[1]
                    o == expanded[1]
                IN  /\ style' = Some(gene.gene_id)
                    /\ specs' = Compile(o).paginated_slides
                    /\ prs' = Compile(o).slides
                    /\ files' = files \cup { OutputPath(o.title, clock) }
                    /\ outcome' =
                           Returns([ success   |-> TRUE,
                                     file_path |->
                                         Some(OutputPath(o.title, clock)) ])
    /\ op' = "generate_presentation"
    /\ pc' = "returned"
    /\ UNCHANGED unused_vars

NextCompile ==
    \/ CompileCall
    \/ CompileWithStyleCall
    \/ GeneratePptxCall
    \/ CompileFromOutlineCall
    \/ GeneratePresentationCall
    \/ GetPresetCall
    \/ BreedStylesCall
    \/ Discard

SpecCompile == InitStyle /\ [][NextCompile]_vars

\* ------------------------------------------------- presentation store
\* The calls of main.py on _presentations_store.  parent_ids holds the id
\* passed; time passes between calls, or stands still.
InitStore ==
    /\ max_content_height = CONTENT_AREA_PT
    /\ hash_seed = 1
    /\ NoCall
    /\ Loaded

idle_vars ==
    << registry, bred, thread, block_vars, compile_vars, color_vars,
       max_content_height, hash_seed, layout_vars, parents, alpha, files >>

Tick == clock' \in { clock, IF clock < MaxClock THEN clock + 1 ELSE clock }

\* add_presentation_record(id, title, slide_count, style_id).
AddPresentationRecordCall ==
    /\ pc = "idle"
    /\ \E id \in StoreIds :
        /\ parent_ids' = << id >>
        /\ store' = AddPresentationRecord(store, id, "Deck", 5,
                                          "modern_minimal", clock)
        /\ outcome' = Returns(store'[id])
        /\ history' = [ before |-> store, live |-> history.live \cup { id } ]
    /\ Tick
    /\ op' = "add_presentation_record"
    /\ pc' = "returned"
    /\ UNCHANGED idle_vars

\* get_presentation(presentation_id).
GetPresentationCall ==
    /\ pc = "idle"
    /\ \E id \in StoreIds :
        /\ parent_ids' = << id >>
        /\ IF id \notin DOMAIN store
           THEN /\ outcome' = Raises("HTTPException 404")
                /\ store' = store
           ELSE /\ store' = GetPresentation(store, id, clock)
                /\ outcome' = Returns(store'[id])
    /\ history' = [ history EXCEPT !.before = store ]
    /\ Tick
    /\ op' = "get_presentation"
    /\ pc' = "returned"
    /\ UNCHANGED idle_vars

\* update_presentation(presentation_id, request).
UpdatePresentationCall ==
    /\ pc = "idle"
    /\ \E id \in StoreIds, request \in UpdateRequests :
        /\ parent_ids' = << id >>
        /\ IF id \notin DOMAIN store
           THEN /\ outcome' = Raises("HTTPException 404")
                /\ store' = store
           ELSE /\ store' = UpdatePresentation(store, id, request, clock)
                /\ outcome' = Returns(store'[id])
    /\ history' = [ history EXCEPT !.before = store ]
    /\ Tick
    /\ op' = "update_presentation"
    /\ pc' = "returned"
    /\ UNCHANGED idle_vars

\* patch_presentation(presentation_id, request):
\* "return await update_presentation(presentation_id, request)".
PatchPresentationCall ==
    /\ pc = "idle"
    /\ \E id \in StoreIds, request \in UpdateRequests :
        /\ parent_ids' = << id >>
        /\ IF id \notin DOMAIN store
           THEN /\ outcome' = Raises("HTTPException 404")
                /\ store' = store
           ELSE /\ store' = UpdatePresentation(store, id, request, clock)
                /\ outcome' = Returns(store'[id])
    /\ history' = [ history EXCEPT !.before = store ]
    /\ Tick
    /\ op' = "patch_presentation"
    /\ pc' = "returned"
    /\ UNCHANGED idle_vars

\* delete_presentation(presentation_id).
DeletePresentationCall ==
    /\ pc = "idle"
    /\ \E id \in StoreIds :
        /\ parent_ids' = << id >>
        /\ IF id \notin DOMAIN store
           THEN /\ outcome' = Raises("HTTPException 404")
                /\ store' = store
                /\ history' = [ history EXCEPT !.before = store ]
           ELSE /\ store' = DeletePresentation(store, id)
                /\ outcome' = Returns(None)
                /\ history' =
                       [ before |-> store, live |-> history.live \ { id } ]
    /\ clock' = clock
    /\ op' = "delete_presentation"
    /\ pc' = "returned"
    /\ UNCHANGED idle_vars

NextStore ==
    \/ AddPresentationRecordCall
    \/ GetPresentationCall
    \/ UpdatePresentationCall
    \/ PatchPresentationCall
    \/ DeletePresentationCall
    \/ Discard

SpecStore == InitStore /\ [][NextStore]_vars

\* ------------------------------------------------------- concurrent calls
\* One Paginator and the loaded presets, used by the calls of two threads.
\* Each call's locals are in thread[T]; a step is what a thread does between
\* two reads of a location another thread could reach.
InitConc ==
    /\ max_content_height \in ConcCaps
    /\ hash_seed \in 1..MaxSeed
    /\ NoCall
    /\ Loaded

\* Locations, each << kind, number, name >>: the Paginator's attribute, the
\* slots of STYLE_PRESETS, the objects of a preset, the SlideContent passed
\* (numbered by its title and length, which tell the slides of ConcSlides
\* apart), and the objects a call constructs itself.
PaginatorAttr == << "Paginator", 0, "max_content_height" >>

PresetSlot(id) == << "STYLE_PRESETS", 0, id >>

PresetObjects(id) ==
    IF id \in DOMAIN registry
    THEN { << "object", ref[1], ref[2] >> : ref \in Objects(registry[id]) }
    ELSE { }

Argument(s) ==
    << "SlideContent", s.title[1] * (MaxLines + 1) + Len(s.body_text), "" >>

Locals(T) == << "locals", T, "" >>

Busy(T) == thread[T].pc \notin { "idle", "returned" }

\* The frame after a step of thread T that read rd and wrote wr.
Touch(T, frame, rd, wr) ==
    [ frame EXCEPT
        !.reads = @ \cup rd \cup { Locals(T) },
        !.writes = @ \cup wr,
        !.overlap = @ \/ \E U \in Threads \ { T } : Busy(U) ]

other_vars ==
    << registry, bred, service_vars, color_vars, pc, op, layout_vars, hash_seed,
       style_vars >>

\* paginate_slide_content(slide) is called: "Convert body text to blocks".
ConcPaginateCall(T) ==
    /\ thread[T].pc = "idle"
    /\ \E s \in ConcSlides :
        thread' =
            [ thread EXCEPT ![T] =
                Touch(T, [ @ EXCEPT !.pc = "total",
                                    !.op = "paginate_slide_content",
                                    !.slide = Some(s),
                                    !.blocks = BodyBlocks(s) ],
                      { Argument(s) }, { Locals(T) }) ]
    /\ UNCHANGED << max_content_height, other_vars >>

\* "if total_height <= self.max_content_height": the single SlideSpec is
\* returned, or the split path starts.
ConcPaginateTotal(T) ==
    /\ thread[T].pc = "total"
    /\ LET frame == thread[T]
           s == frame.slide[1]
           total_height == SumHeights(frame.blocks)
       IN  thread' =
               [ thread EXCEPT ![T] =
                   Touch(T,
                         IF total_height <= max_content_height
                         THEN [ frame EXCEPT
                                  !.pc = "returned",
                                  !.returns =
                                      Returns(<< SingleSlide(s, frame.blocks,
                                                             total_height) >>) ]
                         ELSE [ frame EXCEPT
                                  !.pc = "loop",
                                  !.st =
                                      Some([ slides        |-> << >>,
                                             current_slide |-> FirstSlide(s),
                                             i             |-> 0 ]) ],
                         { PaginatorAttr, Argument(s) }, { Locals(T) }) ]
    /\ UNCHANGED << max_content_height, other_vars >>

ConcPaginateStepOnSelf(T) ==
    /\ thread[T].pc = "loop"
    /\ thread[T].st[1].i < Len(thread[T].blocks)
    /\ LET frame == thread[T]
           block == frame.blocks[frame.st[1].i + 1]
       IN  /\ thread' =
                  [ thread EXCEPT ![T] =
                      Touch(T,
                            [ frame EXCEPT
                                !.st = Some(PackBlock(max_content_height,
                                                      frame.slide[1],
                                                      frame.st[1], block)) ],
                            { PaginatorAttr }, { Locals(T), PaginatorAttr }) ]
           /\ max_content_height' =
                  max_content_height - EstimateBlockHeight(block)
    /\ UNCHANGED other_vars

\* One iteration of "for i, block in enumerate(blocks)":
\* _can_fit_on_slide reads self.max_content_height.
ConcPaginateStep(T) ==
    /\ thread[T].pc = "loop"
    /\ thread[T].st[1].i < Len(thread[T].blocks)
    /\ LET frame == thread[T]
           block == frame.blocks[frame.st[1].i + 1]
       IN  thread' =
               [ thread EXCEPT ![T] =
                   Touch(T,
                         [ frame EXCEPT
                             !.st = Some(PackBlock(max_content_height,
                                                   frame.slide[1],
                                                   frame.st[1], block)) ],
                         { PaginatorAttr }, { Locals(T) }) ]
    /\ UNCHANGED << max_content_height, other_vars >>

\* "Don't forget the last slide" and "return slides".
ConcPaginateReturn(T) ==
    /\ thread[T].pc = "loop"
    /\ thread[T].st[1].i >= Len(thread[T].blocks)
    /\ LET frame == thread[T]
       IN  thread' =
               [ thread EXCEPT ![T] =
                   Touch(T,
                         [ frame EXCEPT
                             !.pc = "returned",
                             !.returns =
                                 Returns(CloseSlide(frame.st[1].slides,
                                                    frame.st[1].current_slide)) ],
                         { }, { Locals(T) }) ]
    /\ UNCHANGED << max_content_height, other_vars >>

\* breed_styles(parent_a_id, parent_b_id, alpha) is called.
ConcBreedStylesCall(T) ==
    /\ thread[T].pc = "idle"
    /\ \E a \in ConcIds \cup { "no_such_preset" }, b \in ConcIds :
        thread' =
            [ thread EXCEPT ![T] =
                Touch(T, [ @ EXCEPT !.pc = "get_preset_a",
                                    !.op = "breed_styles",
                                    !.ids = << a, b >>,
                                    !.alpha = ConcAlpha ],
                      { }, { Locals(T) }) ]
    /\ UNCHANGED << max_content_height, other_vars >>

\* "parent_a = get_preset(parent_a_id)", then
\* "parent_b = get_preset(parent_b_id)": each reads STYLE_PRESETS.
ConcGetPreset(T) ==
    /\ thread[T].pc \in { "get_preset_a", "get_preset_b" }
    /\ LET frame == thread[T]
           first == frame.pc = "get_preset_a"
           id == IF first THEN frame.ids[1] ELSE frame.ids[2]
       IN  thread' =
               [ thread EXCEPT ![T] =
                   Touch(T,
                         IF id \notin DOMAIN registry
                         THEN [ frame EXCEPT
                                  !.pc = "returned",
                                  !.returns = Raises("ValueError") ]
                         ELSE IF first
                         THEN [ frame EXCEPT
                                  !.pc = "get_preset_b",
                                  !.parent_a = Some(registry[id].gene) ]
                         ELSE [ frame EXCEPT
                                  !.pc = "interpolate",
                                  !.parent_b = Some(registry[id].gene) ],
                         { PresetSlot(id) }, { Locals(T) }) ]
    /\ UNCHANGED << max_content_height, other_vars >>

\* "return parent_a.interpolate(parent_b, alpha)": reads the parents'
\* objects and constructs the child.
ConcInterpolate(T) ==
    /\ thread[T].pc = "interpolate"
    /\ LET frame == thread[T]
       IN  thread' =
               [ thread EXCEPT ![T] =
                   Touch(T,
                         [ frame EXCEPT
                             !.pc = "returned",
                             !.returns =
                                 Returns(StyleGeneInterpolate(
                                             frame.parent_a[1],
                                             frame.parent_b[1], frame.alpha,
                                             TagOrder(hash_seed))) ],
                         PresetObjects(frame.ids[1])
                             \cup PresetObjects(frame.ids[2]),
                         { Locals(T) }) ]
    /\ UNCHANGED << max_content_height, other_vars >>

\* The caller of thread T drops the returned value; the thread is free for
\* its next call.
ConcDiscard(T) ==
    /\ thread[T].pc = "returned"
    /\ thread' = [ thread EXCEPT ![T] = IdleFrame ]
    /\ UNCHANGED << max_content_height, other_vars >>

NextConc ==
    \/ \E T \in Threads : ConcPaginateCall(T)
    \/ \E T \in Threads : ConcPaginateTotal(T)
    \/ \E T \in Threads : ConcPaginateStep(T)
    \/ \E T \in Threads : ConcPaginateReturn(T)
    \/ \E T \in Threads : ConcBreedStylesCall(T)
    \/ \E T \in Threads : ConcGetPreset(T)
    \/ \E T \in Threads : ConcInterpolate(T)
    \/ \E T \in Threads : ConcDiscard(T)

SpecConc == InitConc /\ [][NextConc]_vars


\* ------------------------------------------------------- layout: properties
Returned(operation) == pc = "returned" /\ op = operation

\* The blocks of all SlideSpecs of ss, in output order.
RECURSIVE AllBlocks(_)
AllBlocks(ss) ==
    IF ss = << >> THEN << >> ELSE Head(ss).blocks \o AllBlocks(Tail(ss))

Contents(blocks) == [ j \in 1..Len(blocks) |-> blocks[j].content ]

\* C1: the contents of the blocks of the SlideSpecs paginate_slide_content
\* returns, concatenated in output order, are exactly slide.body_text: the
\* same lines in the same order, none lost, none duplicated.
C1_Conservation ==
    Returned("paginate_slide_content") =>
        Contents(AllBlocks(specs)) = slide[1].body_text

\* A split into three or more SlideSpecs of a body whose lines differ.
C1_Witness ==
    /\ Returned("paginate_slide_content")
    /\ Len(specs) >= 3
    /\ Len(specs[2].blocks) >= 2
    /\ slide[1].body_text[1] # slide[1].body_text[2]

\* C2: every returned SlideSpec has total_height_pt <= max_content_height,
\* unless it holds exactly one block whose own height exceeds the capacity;
\* such a block is emitted alone on its slide, and no block is dropped.
C2_Capacity ==
    Returned("paginate_slide_content") =>
        /\ \A j \in 1..Len(specs) :
            \/ specs[j].total_height_pt <= max_content_height
            \/ /\ Len(specs[j].blocks) = 1
               /\ EstimateBlockHeight(specs[j].blocks[1]) > max_content_height
        /\ Len(AllBlocks(specs)) = Len(slide[1].body_text)

\* Under a positive capacity below the height of a line, several blocks
\* are returned, each alone on a slide it overflows.
C2_Witness ==
    /\ Returned("paginate_slide_content")
    /\ max_content_height > 0
    /\ Len(specs) >= 2
    /\ \A j \in 1..Len(specs) :
        /\ Len(specs[j].blocks) = 1
        /\ specs[j].total_height_pt > max_content_height

\* C3 as claimed: whenever a slide is split into several SlideSpecs, for
\* every positive max_content_height, the first SlideSpec is no continuation,
\* has an empty marker and carries the input's visual spec and speaker notes,
\* and every later one is a continuation marked "(Continued)" with no visual
\* spec and empty notes.
C3_FirstSlideCarries ==
    ( /\ Returned("paginate_slide_content")
      /\ Len(specs) >= 2
      /\ max_content_height > 0 ) =>
        /\ ~specs[1].is_continuation
        /\ specs[1].continuation_marker = ""
        /\ specs[1].visual_spec = slide[1].visual_spec
        /\ specs[1].speaker_notes = slide[1].speaker_notes
        /\ \A j \in 2..Len(specs) :
            /\ specs[j].is_continuation
            /\ specs[j].continuation_marker = "(Continued)"
            /\ specs[j].visual_spec = None
            /\ specs[j].speaker_notes = ""

\* C4: when the heights of all blocks sum to at most max_content_height
\* (an empty body included), exactly one SlideSpec is returned: all blocks
\* in order, the input's visual spec and speaker notes, no continuation.
C4_SingleSlide ==
    ( /\ Returned("paginate_slide_content")
      /\ SumHeights(BodyBlocks(slide[1])) <= max_content_height ) =>
        /\ Len(specs) = 1
        /\ Contents(specs[1].blocks) = slide[1].body_text
        /\ \A j \in 1..Len(specs[1].blocks) :
            specs[1].blocks[j].block_type = "bullet_list"
        /\ specs[1].visual_spec = slide[1].visual_spec
        /\ specs[1].speaker_notes = slide[1].speaker_notes
        /\ ~specs[1].is_continuation
        /\ specs[1].continuation_marker = ""

\* A body of several lines that fits exactly, with a visual and notes.
C4_Witness ==
    /\ Returned("paginate_slide_content")
    /\ Len(slide[1].body_text) >= 2
    /\ SumHeights(BodyBlocks(slide[1])) = max_content_height
    /\ slide[1].speaker_notes # ""
    /\ slide[1].visual_spec # None
    /\ Len(specs) = 1

RECURSIVE CountBlocks(_, _)
CountBlocks(ss, from) ==
    IF from > Len(ss)
    THEN 0
    ELSE Len(ss[from].blocks) + CountBlocks(ss, from + 1)

IsScenario ==
    /\ Returned("paginate_slide_content")
    /\ slide[1].body_text = ScenarioBody
    /\ max_content_height = CONTENT_AREA_PT

RECURSIVE FlatMap(_, _)
FlatMap(cap, ss) ==
    IF ss = << >>
    THEN << >>
    ELSE PaginateSlideContent(cap, Head(ss)) \o FlatMap(cap, Tail(ss))

\* C6: paginate_presentation(slides) is the concatenation, in input order,
\* of paginate_slide_content(s) for each s of slides; during the loop the
\* result is that of the slides consumed so far.
C6_FlatMap ==
    /\ ( pc = "running" /\ op = "paginate_presentation" ) =>
           result = FlatMap(max_content_height, SubSeq(slides, 1, done))
    /\ Returned("paginate_presentation") =>
           specs = FlatMap(max_content_height, slides)

\* Two different slides, the first of them split.
C6_Witness ==
    /\ Returned("paginate_presentation")
    /\ Len(slides) = 2
    /\ slides[1] # slides[2]
    /\ Len(PaginateSlideContent(max_content_height, slides[1])) >= 2
    /\ Len(specs) >= 3

\* The decision table of suggest_layout, first matching row.
LayoutTable(n, hasVisual) ==
    CASE n = 0 /\ ~hasVisual      -> "title_only"
      [] n = 1 /\ ~hasVisual      -> "section_header"
      [] hasVisual /\ n <= 2      -> "visual_heavy"
      [] hasVisual /\ n > 2       -> "two_column"
      [] ~hasVisual /\ n >= 4 /\ n % 2 = 0 -> "two_column"
      [] OTHER                    -> "title_content"

\* A visual spec is present and its type is not "none".
HasVisual(s) ==
    /\ s.visual_spec # None
    /\ s.visual_spec[1].visual_type # "none"

Bred == pc = "returned" /\ op \in { "interpolate", "breed_styles" }

\* The parents of the breeding that returned, and its child.
SelfGene ==
    IF op = "interpolate" THEN parents[1] ELSE STYLE_PRESETS[parent_ids[1]]

OtherGene ==
    IF op = "interpolate" THEN parents[2] ELSE STYLE_PRESETS[parent_ids[2]]

Child == outcome.value[1]

\* C8 as claimed: interpolate, and breed_styles which calls it, fail with an
\* invalid-argument error and return no gene for every alpha outside [0, 1].
C8_RejectsAlphaOutside ==
    ( Bred /\ (alpha < 0 \/ alpha > Unit) ) =>
        /\ outcome.raised # ""
        /\ outcome.value = None

Categorical(gene) ==
    << gene.typography.heading_font, gene.typography.body_font,
       gene.typography.heading_weight, gene.typography.body_weight >>

\* C9: the four categorical fields of the child (heading font, body font,
\* heading weight, body weight) are self's when alpha < 0.5 and other's when
\* alpha >= 0.5, alpha = 0.5 included; never a mix of the two.
C9_CategoricalSelection ==
    ( Bred /\ outcome.value # None ) =>
        Categorical(Child) =
            IF 2 * alpha < Unit THEN Categorical(SelfGene)
            ELSE Categorical(OtherGene)

\* A breeding at alpha = 0.5 of parents whose four categorical fields are
\* not the same.
C9_Witness ==
    /\ Bred
    /\ outcome.value # None
    /\ 2 * alpha = Unit
    /\ SelfGene.typography.heading_font # OtherGene.typography.heading_font
    /\ SelfGene.typography.heading_weight # OtherGene.typography.heading_weight
    /\ Child.typography.heading_font = OtherGene.typography.heading_font

\* The numeric fields of a gene: those of TypographyParams, those of
\* LayoutPhysics, and the three axes of each palette role.
Numeric(gene) ==
    [ base_size_pt   |-> gene.typography.base_size_pt,
      scale_ratio    |-> gene.typography.scale_ratio,
      line_height    |-> gene.typography.line_height,
      letter_spacing |-> gene.typography.letter_spacing,
      layout         |-> gene.layout,
      palette        |-> gene.palette ]

\* C10 as claimed: A.interpolate(B, 0.0) has every numeric field of A, and
\* A.interpolate(B, 1.0) every numeric field of B, letter spacing included.
C10_Boundaries ==
    ( Bred /\ outcome.value # None ) =>
        /\ alpha = 0 => Numeric(Child) = Numeric(SelfGene)
        /\ alpha = Unit => Numeric(Child) = Numeric(OtherGene)

\* |x - y| is at most the rounding of one product.
Near(x, y) == x - y \in -1..1

\* The numeric fields of gene and of parent agree, each up to the rounding
\* of one product.
NumericNear(gene, parent) ==
    /\ Near(gene.typography.base_size_pt, parent.typography.base_size_pt)
    /\ Near(gene.typography.scale_ratio, parent.typography.scale_ratio)
    /\ Near(gene.typography.line_height, parent.typography.line_height)
    /\ Near(gene.typography.letter_spacing, parent.typography.letter_spacing)
    /\ \A f \in DOMAIN gene.layout : Near(gene.layout[f], parent.layout[f])
    /\ \A r \in Roles :
        /\ Near(gene.palette[r].L, parent.palette[r].L)
        /\ Near(gene.palette[r].a, parent.palette[r].a)
        /\ Near(gene.palette[r].b, parent.palette[r].b)

\* C11 as claimed: for every gene g and every alpha in [0, 1],
\* g.interpolate(g, alpha) has every numeric typography, layout and palette
\* field of g (up to the rounding of the products) and the same tags as g.
C11_SelfIdentity ==
    ( /\ Returned("interpolate")
      /\ parents[1] = parents[2]
      /\ alpha \in 0..Unit ) =>
        /\ NumericNear(Child, parents[1])
        /\ SeqToSet(Child.tags) = SeqToSet(parents[1].tags)
        /\ Len(Child.tags) = Len(parents[1].tags)

\* round(x) of the float n / d, d > 0 and n >= 0: to the nearest integer,
\* ties to even.
Round(n, d) == RoundDiv(n, d)

\* C12 as claimed: for every alpha in [0, 1] the gene_id of
\* self.interpolate(other, alpha) is self.gene_id + "_x_" + other.gene_id
\* + "_" + round(alpha * 100).
C12_GeneIdRounds ==
    ( Bred /\ outcome.value # None /\ alpha \in 0..Unit ) =>
        Child.gene_id =
            SelfGene.gene_id \o "_x_" \o OtherGene.gene_id \o "_"
                \o ToString(Round(alpha * 100, Unit))

\* C13: for every alpha the tags of self.interpolate(other, alpha) are the
\* set union of the parents' tags: a tag is in the child iff it is in
\* self.tags or in other.tags, and it occurs there once.
C13_TagsUnion ==
    ( Bred /\ outcome.value # None ) =>
        /\ \A tag \in SeqToSet(TagUniverse) \cup SeqToSet(Child.tags) :
            tag \in SeqToSet(Child.tags) <=>
                ( tag \in SeqToSet(SelfGene.tags)
                  \/ tag \in SeqToSet(OtherGene.tags) )
        /\ \A j, k \in 1..Len(Child.tags) :
            Child.tags[j] = Child.tags[k] => j = k

\* Two different parents that share a tag, in a process whose sets of tags
\* do not iterate in the order the tags were listed.
C13_Witness ==
    /\ Bred
    /\ outcome.value # None
    /\ SelfGene # OtherGene
    /\ SeqToSet(SelfGene.tags) \cap SeqToSet(OtherGene.tags) # { }
    /\ Len(Child.tags) = Len(SelfGene.tags) + Len(OtherGene.tags) - 1
    /\ Child.tags # Dedup(SelfGene.tags \o OtherGene.tags)

SplitPath ==
    /\ Returned("paginate_slide_content")
    /\ SumHeights(BodyBlocks(slide[1])) > max_content_height

\* C19: in the split path the packing is greedy.  A block was appended to
\* the current slide only if the total with it stayed within the capacity,
\* and a block opened the next slide only if it did not fit: for every two
\* consecutive SlideSpecs, the total height of the earlier plus the height
\* of the first block of the later exceeds the capacity.
C19_Greedy ==
    SplitPath =>
        /\ \A j \in 1..Len(specs) :
            /\ specs[j].total_height_pt = SumHeights(specs[j].blocks)
            /\ Len(specs[j].blocks) >= 2 =>
                   specs[j].total_height_pt <= max_content_height
        /\ \A j \in 1..(Len(specs) - 1) :
            specs[j].total_height_pt
                + EstimateBlockHeight(specs[j + 1].blocks[1])
                    > max_content_height

\* Slides filled exactly to the capacity by two blocks each, and a last
\* block on a slide of its own.
C19_Witness ==
    /\ SplitPath
    /\ Len(specs) >= 2
    /\ \A j \in 1..(Len(specs) - 1) :
        /\ Len(specs[j].blocks) = 2
        /\ specs[j].total_height_pt = max_content_height
    /\ Len(specs[Len(specs)].blocks) = 1

\* A typography's sizes strictly decrease from h1 to body.
Decreasing(sizes) ==
    /\ sizes.h1 > sizes.h2
    /\ sizes.h2 > sizes.h3
    /\ sizes.h3 > sizes.h4
    /\ sizes.h4 > sizes.body

WellFormed(gene) ==
    /\ gene.typography.base_size_pt > 0
    /\ gene.typography.scale_ratio > Unit
    /\ Decreasing(GetHeadingSizes(gene.typography))
    /\ gene.layout.density \in 0..Unit
    /\ gene.layout.margin_factor \in 0..Unit
    /\ gene.layout.padding_factor \in 0..Unit
    /\ gene.layout.shadow_intensity \in 0..Unit
    /\ gene.layout.corner_radius >= 0
    /\ gene.layout.border_width >= 0

\* C20: every gene obtained from the presets by a chain of interpolate
\* calls with alpha in [0, 1], children being parents again, has
\* base size > 0 and scale_ratio > 1, derived sizes h1 > h2 > h3 > h4 > body,
\* density, margin factor, padding factor and shadow intensity within
\* [0, 1], and corner radius and border width >= 0.
C20_ChainInvariants ==
    \A j \in 1..Len(bred) : WellFormed(bred[j].gene)

\* A gene bred from a bred gene and a preset, at a mixing factor strictly
\* inside [0, 1], whose layout differs from every preset's.
C20_Witness ==
    /\ Len(bred) = MaxBred
    /\ bred[Len(bred)].gene.gene_id
           = bred[1].gene.gene_id \o "_x_creative_bold_25"
    /\ bred[1].gene.gene_id = "corporate_classic_x_dark_cyber_25"
    /\ \A id \in DOMAIN registry :
           bred[Len(bred)].gene.layout # registry[id].gene.layout

Registered == SeqToSet(PresetIds)

\* A text of "#" and six lower-case hexadecimal digits.
IsHexText(text) ==
    /\ Len(text) = 7
    /\ text[1] = "#"
    /\ \A k \in 2..7 : \E d \in 1..Len(HexDigits) : HexDigits[d] = text[k]

\* C14: get_preset(id) returns, for each registered id, the registered gene
\* whose gene_id is id, and fails with a not-found error for every other
\* id; breed_styles(a, b, alpha) fails and returns no gene when a or b is
\* not registered; list_presets returns exactly one entry (id, name, tags,
\* preview colours) per registered gene.
C14_Registry ==
    /\ Returned("get_preset") =>
           IF parent_ids[1] \in Registered
           THEN /\ outcome.raised = ""
                /\ outcome.value = Some(STYLE_PRESETS[parent_ids[1]])
                /\ outcome.value[1].gene_id = parent_ids[1]
           ELSE /\ outcome.raised = "ValueError"
                /\ outcome.value = None
    /\ ( /\ Returned("breed_styles")
         /\ \E k \in 1..2 : parent_ids[k] \notin Registered ) =>
           /\ outcome.raised = "ValueError"
           /\ outcome.value = None
    /\ Returned("list_presets") =>
           LET entries == outcome.value[1]
           IN  /\ Len(entries) = Cardinality(Registered)
               /\ \A id \in Registered :
                   \E k \in 1..Len(entries) :
                       /\ entries[k].id = id
                       /\ \A j \in 1..Len(entries) :
                              entries[j].id = id => j = k
                       /\ DOMAIN entries[k]
                              = { "id", "name", "tags", "preview_colors" }
                       /\ entries[k].name = STYLE_PRESETS[id].name
                       /\ entries[k].tags = STYLE_PRESETS[id].tags
                       /\ DOMAIN entries[k].preview_colors = Roles
                       /\ \A role \in Roles :
                              IsHexText(entries[k].preview_colors[role])

\* get_preset of an id that is not registered has raised.
C14_Witness ==
    /\ Returned("get_preset")
    /\ parent_ids[1] \notin Registered
    /\ outcome.raised = "ValueError"

\* A text that, apart from an optional leading "#", is exactly six
\* hexadecimal digits.
SixHexDigits(text) ==
    LET digits == IF text # << >> /\ Head(text) = "#" THEN Tail(text) ELSE text
    IN  /\ Len(digits) = 6
        /\ \A k \in 1..6 : IsHexDigit(digits[k])

\* The three 8-bit channels of such a text.
ChannelsOf(text) ==
    LET digits == IF Head(text) = "#" THEN Tail(text) ELSE text
    IN  [ k \in 1..3 |->
            16 * DigitValue(digits[2 * k - 1]) + DigitValue(digits[2 * k]) ]

C17_RejectsMalformedHex ==
    /\ ( Returned("from_hex") /\ ~SixHexDigits(hex_color) ) =>
           /\ outcome.raised = "ValueError"
           /\ outcome.value = None
    /\ ( /\ Returned("from_hex_dict")
         /\ \E role \in Roles :
                /\ colors[1][role] # None
                /\ ~SixHexDigits(colors[1][role][1]) ) =>
           /\ outcome.raised = "ValueError"
           /\ outcome.value = None

\* C15: after any sequence of get_preset, list_presets, breed_styles and
\* interpolate calls every field of every registry gene is as loaded and
\* both parents of a breeding are as they were passed, and each child is a
\* new object that shares no typography, palette, colour, layout or list of
\* tags with either parent, nor with any other gene the process holds.
C15_NoMutationNoSharing ==
    /\ registry = LoadedPresets
    /\ ( Bred /\ outcome.raised = "" ) =>
           /\ Child = bred[Len(bred)]
           /\ \A k \in 1..2 :
               /\ parents[k] \in Held
               /\ Objects(Child) \cap Objects(parents[k]) = { }
    /\ \A j \in 1..Len(bred) :
           /\ Cardinality(Objects(bred[j])) = Cardinality(Parts)
           /\ \A id \in DOMAIN registry :
                  Objects(bred[j]) \cap Objects(registry[id]) = { }
           /\ \A k \in 1..Len(bred) :
                  k # j => Objects(bred[j]) \cap Objects(bred[k]) = { }

\* A bred gene was bred again, with a preset at alpha = 1.0: the child has
\* the palette, the layout and the tags of a gene of the registry, in
\* objects of its own.
C15_Witness ==
    /\ Returned("interpolate")
    /\ parents[1] = bred[1]
    /\ Len(bred) >= 2
    /\ parents[2] \in { registry[id] : id \in DOMAIN registry }
    /\ alpha = Unit
    /\ Child.gene.palette = parents[2].gene.palette
    /\ Child.gene.layout = parents[2].gene.layout
    /\ SeqToSet(parents[2].gene.tags) \subseteq SeqToSet(Child.gene.tags)
    /\ Objects(Child) \cap Objects(parents[2]) = { }

\* C18: under any interleaving of two threads' paginate_slide_content calls
\* on one Paginator and breed_styles calls on the loaded presets, each call
\* returns what the same call returns when it runs alone, no call writes a
\* location another call reads, and the Paginator's attribute and the
\* presets stay as they were.
C18_Isolation ==
    /\ registry = LoadedPresets
    /\ max_content_height \in ConcCaps
    /\ \A T \in Threads :
        /\ ( thread[T].pc = "returned"
             /\ thread[T].op = "paginate_slide_content" ) =>
               thread[T].returns =
                   Returns(PaginateSlideContent(max_content_height,
                                                thread[T].slide[1]))
        /\ ( thread[T].pc = "returned" /\ thread[T].op = "breed_styles" ) =>
               thread[T].returns =
                   BreedStyles(thread[T].ids[1], thread[T].ids[2],
                               thread[T].alpha, TagOrder(hash_seed))
        /\ \A U \in Threads \ { T } :
               thread[T].writes \cap thread[U].reads = { }

\* Both calls have returned and each ran while the other was under way: a
\* pagination that split its slide, and a breeding of two presets.
C18_Witness ==
    /\ thread[1].pc = "returned"
    /\ thread[1].op = "paginate_slide_content"
    /\ Len(thread[1].returns.value[1]) >= 2
    /\ thread[1].overlap
    /\ thread[2].pc = "returned"
    /\ thread[2].op = "breed_styles"
    /\ thread[2].returns.raised = ""
    /\ thread[2].overlap
    /\ PaginatorAttr \in thread[1].reads
    /\ PresetSlot(thread[2].ids[1]) \in thread[2].reads

\* self * (1 - alpha) + other * alpha on two stored values.
Weighted(x, y, t) == RoundDiv(x * (Unit - t), Unit) + RoundDiv(y * t, Unit)

\* C21: for every alpha in [0, 1] each of base size, scale ratio, line
\* height, density, corner radius, margin factor, padding factor, shadow
\* intensity and border width of the child, and each of the three axes of
\* each of the seven palette roles, is self * (1 - alpha) + other * alpha of
\* the values the parents store, also when a parent was bred itself: no
\* colour passes through hex or RGB between the breedings of a chain.
C21_LinearOnStoredValues ==
    ( Returned("interpolate") /\ alpha \in 0..Unit ) =>
        LET s == parents[1].gene
            o == parents[2].gene
            c == Child.gene
        IN  /\ \A f \in { "base_size_pt", "scale_ratio", "line_height" } :
                   c.typography[f]
                       = Weighted(s.typography[f], o.typography[f], alpha)
            /\ \A f \in DOMAIN c.layout :
                   c.layout[f] = Weighted(s.layout[f], o.layout[f], alpha)
            /\ \A r \in Roles : \A axis \in { "L", "a", "b" } :
                   c.palette[r][axis]
                       = Weighted(s.palette[r][axis], o.palette[r][axis], alpha)

\* A bred gene was bred again strictly inside [0, 1], and its stored primary
\* colour is not the colour its hex text stands for.
C21_Witness ==
    /\ Returned("interpolate")
    /\ Len(bred) >= 2
    /\ parents[1] = bred[1]
    /\ alpha = Unit \div 4
    /\ Child.gene.palette # parents[1].gene.palette
    /\ FromHex(ToHex(parents[1].gene.palette["primary"])).value[1]
           # parents[1].gene.palette["primary"]

\* C22 as claimed: the base heights of the eight block types are pairwise
\* distinct.
C22_DistinctHeights ==
    ( /\ Returned("_estimate_block_height")
      /\ block_args[1].estimated_height_pt = 0
      /\ block_args[1].content = << >> ) =>
        /\ height = Some(BLOCK_HEIGHTS[block_args[1].block_type])
        /\ \A u \in BlockType \ { block_args[1].block_type } :
               height # Some(BLOCK_HEIGHTS[u])

\* C23 as claimed: for every block type and every pre-set height h >= 0,
\* _estimate_block_height returns h.
C23_PresetOverrides ==
    Returned("_estimate_block_height") =>
        ( block_args[1].estimated_height_pt >= 0
            => height = Some(block_args[1].estimated_height_pt) )

\* The numbers of blocks of the SlideSpecs, in order: where the list of
\* blocks was split.
Cuts(ss) == [ j \in 1..Len(ss) |-> Len(ss[j].blocks) ]

\* The block of the same height with no flag, no type of its own, no text.
Plain(block) == ContentBlock("spacer", << >>, EstimateBlockHeight(block))

C24_DensityAtMostOne ==
    Returned("calculate_density_score") =>
        ( ~ ( /\ Len(score[1].blocks) = 1
              /\ EstimateBlockHeight(score[1].blocks[1]) > max_content_height )
            => score[2] <= Unit )

\* C28: every SlideSpec returned by paginate_slide_content has a
\* total_height_pt equal to the sum of the estimated heights of the blocks in
\* its list of blocks, in the single-slide path and in the split path.
C28_TotalIsSum ==
    Returned("paginate_slide_content") =>
        \A j \in 1..Len(specs) :
            specs[j].total_height_pt = SumHeights(specs[j].blocks)

\* A split into a first slide of two blocks or more and a continuation slide
\* with fewer blocks, each with the total of its own blocks.
C28_Witness ==
    /\ Returned("paginate_slide_content")
    /\ Len(specs) >= 2
    /\ Len(specs[1].blocks) >= 2
    /\ specs[Len(specs)].is_continuation
    /\ Len(specs[Len(specs)].blocks) < Len(specs[1].blocks)
    /\ specs[1].total_height_pt > specs[Len(specs)].total_height_pt
    /\ specs[Len(specs)].total_height_pt > 0

\* C29 as claimed: for an ordered pair of parents, a child bred with any
\* other alpha in [0, 1] that gets the same gene_id has the same numeric
\* fields and the same categorical fields.
C29_GeneIdIdentifies ==
    ( Returned("interpolate") /\ alpha \in 0..Unit ) =>
        \A t \in Alphas \cap (0..Unit) :
            LET twin ==
                    StyleGeneInterpolate(parents[1], parents[2], t,
                                         TagOrder(hash_seed))
            IN  twin.gene_id = Child.gene_id =>
                    /\ Numeric(twin) = Numeric(Child)
                    /\ Categorical(twin) = Categorical(Child)

\* The calls that look a caller's preset id up.
Lookups ==
    { "get_preset", "breed_styles", "compile_with_style", "generate_pptx",
      "compile_from_outline", "generate_presentation" }

\* C26 as claimed: when a preset id supplied by the caller is not in the
\* registry, the operation that looked it up reports the failure (an
\* exception, or a response with success = False) and compiles nothing with
\* another gene.
C26_LookupFailureReported ==
    ( /\ pc = "returned"
      /\ op \in Lookups
      /\ op = "generate_presentation" => outline # None
      /\ \E k \in 1..Len(parent_ids) : parent_ids[k] \notin DOMAIN registry ) =>
        /\ IF op = "generate_presentation"
           THEN ~ outcome.value[1].success
           ELSE outcome.raised # ""
        /\ prs = << >>

\* C27 as claimed: after the title slide, compile adds exactly one content
\* slide per SlideSpec that paginate_presentation(outline.slides) returned,
\* in that order, each with the lines of its SlideSpec only.
C27_CompileConsumesPagination ==
    ( /\ pc = "returned"
      /\ op \in { "compile", "compile_with_style", "generate_pptx",
                  "compile_from_outline", "generate_presentation" }
      /\ prs # << >> ) =>
        /\ specs = FlatMap(CONTENT_AREA_PT, outline[1].slides)
        /\ prs[1].kind = "title"
        /\ Len(prs) = 1 + Len(specs)
        /\ \A j \in 1..Len(specs) :
               /\ prs[j + 1].kind = "content"
               /\ prs[j + 1].body_text = Contents(specs[j].blocks)

StoreCalls ==
    { "get_presentation", "update_presentation", "patch_presentation",
      "delete_presentation" }

\* C30: after any sequence of add_presentation_record, get, update, patch
\* and delete, an id is in the store iff it was added and not deleted since
\* its last add; get, update, patch and delete of an id that is not in the
\* store fail with 404 and leave the store unchanged; and a get, update,
\* patch or delete of one id changes no record stored under another id.
C30_Store ==
    /\ DOMAIN store = history.live
    /\ ( pc = "returned" /\ op \in StoreCalls ) =>
        LET id == parent_ids[1]
        IN  /\ id \notin DOMAIN history.before =>
                   /\ outcome = Raises("HTTPException 404")
                   /\ store = history.before
            /\ id \in DOMAIN history.before => outcome.raised = ""
            /\ \A k \in DOMAIN history.before \ { id } :
                   /\ k \in DOMAIN store
                   /\ store[k] = history.before[k]

\* With two records stored, one was renamed and starred by an update and
\* then deleted; the other is as it was added.
C30_Witness ==
    /\ Returned("delete_presentation")
    /\ parent_ids = << "p1" >>
    /\ outcome.raised = ""
    /\ DOMAIN history.before = { "p1", "p2" }
    /\ history.before["p1"].title = "Renamed"
    /\ history.before["p1"].isFavorite
    /\ history.before["p1"].updatedAt # None
    /\ DOMAIN store = { "p2" }
    /\ store["p2"].title = "Deck"
    /\ store["p2"].updatedAt = None

====
